---- MODULE Spec2Model ----
(***************************************************************************)
(* Identity and access-control core of the ERP backend: the auth-service   *)
(* handlers (register, login, refresh, logout), the refresh-token ledger   *)
(* (refresh_tokens table), the users table and the Redis session cache.    *)
(* Every handler is split at its awaits on shared state, so that requests  *)
(* in flight interleave exactly where the Node event loop lets them.       *)
(***************************************************************************)
EXTENDS Integers, FiniteSets, Sequences, TLC

VARIABLES
    now,        \* the clock (CURRENT_TIMESTAMP / Date.now), in abstract ticks
    users,      \* rows of the users table
    ledger,     \* rows of the refresh_tokens table
    sessions,   \* entries of the Redis cache: session:<id> and user:<id> keys
    rq,         \* the requests in flight, one record per request slot
    last,       \* the request answered last, with its response
    delivered,  \* token pairs that reached a client in a 2xx response
    rotated,    \* refresh tokens for which a refresh has completed with 200
    loggedOut,  \* refresh tokens for which a logout has completed with 200
    retired,    \* refresh tokens whose ledger row was once revoked or deleted
    started,    \* number of requests received so far
    probe       \* one call of a verification function: its inputs and result

vars == <<now, users, ledger, sessions, rq, last, delivered, rotated, loggedOut, retired, started, probe>>

-----------------------------------------------------------------------------
(* Bounds of the model *)

MaxTime == 2
MaxStarts == 3
MaxTokenId == 3

(* JWT_REFRESH_EXPIRY ('7d') and JWT_ACCESS_EXPIRY ('15m') in ticks *)
RefreshTTL == 1
AccessTTL == 1

\* the request slots: two requests can be in flight at once
Reqs == {1, 2}
TokenIds == 1..MaxTokenId

-----------------------------------------------------------------------------
(* Values *)

NoUser == [id |-> 0]
\* SQL NULL, JavaScript null or undefined, where an array is expected
NullArray == {"null"}
NoToken == [type |-> "none"]
NoTokens == [accessToken |-> NoToken, refreshToken |-> NoToken]

AdminEmail == "admin@erp.com"
AliceEmail == "alice@example.com"
EmailInputs == {AdminEmail, AliceEmail, "Alice@Example.com"}
Passwords == {"Admin@123", "Str0ng!Pass"}
RegisterPasswords == {"Str0ng!Pass"}

\* String.prototype.toLowerCase on the e-mail inputs of the model
toLowerCase(e) == IF e = "Alice@Example.com" THEN AliceEmail ELSE e

\* bcrypt.hash / bcrypt.compare: a one-way image of the password
bcryptHash(p) == <<"bcrypt", p>>
verifyPassword(plain, hash) == hash = bcryptHash(plain)

\* the default admin inserted by the provisioning script; its password_hash
\* is a 58-character placeholder, which bcrypt.compare matches with nothing
SeedUsers ==
    {[id |-> 1, email |-> AdminEmail, password_hash |-> <<"placeholder">>,
      is_active |-> TRUE, roles |-> {"super_admin"}]}

\* the roles an administrator assigns in the model
RoleNames == {"manager"}

\* INSERT INTO roles
roles == {"super_admin", "admin", "manager", "employee", "viewer"}

\* INSERT INTO permissions: the rows of the model
permissions ==
    {[resource |-> "users", action |-> "read"],
     [resource |-> "orders", action |-> "update"],
     [resource |-> "settings", action |-> "update"]}

\* INSERT INTO role_permissions: every permission for super_admin, those of
\* five resources for admin, none for the other roles
role_permissions ==
    {[role |-> "super_admin", permission |-> p] : p \in permissions}
        \cup {[role |-> "admin", permission |-> p] :
                p \in {q \in permissions :
                        q.resource \in {"users", "products", "inventory", "orders",
                                        "analytics"}}}

\* p.resource || ':' || p.action
permissionString(p) == p.resource \o ":" \o p.action

\* faulty variant: the join loses its condition on the principal's roles
permissionsOf_everyRole(rs) ==
    {permissionString(rp.permission) : rp \in role_permissions}

\* the permission strings joined to a set of role names: user_roles to
\* role_permissions to permissions, DISTINCT
permissionsOf(rs) ==
    {permissionString(rp.permission) : rp \in {x \in role_permissions : x.role \in rs}}

\* x || []
orEmpty(x) == IF x = NullArray THEN {} ELSE x

-----------------------------------------------------------------------------
(* utils/jwt.js *)

\* faulty variant: the permissions are left out of the payload
generateAccessToken_noPermissions(payload, t) ==
    [type |-> "access", key |-> "JWT_SECRET", userId |-> payload.userId,
     email |-> payload.email, roles |-> orEmpty(payload.roles),
     permissions |-> {},
     iat |-> t, exp |-> t + AccessTTL, tokenId |-> 0]

\* jwt.sign(tokenPayload, JWT_SECRET, {expiresIn: JWT_ACCESS_EXPIRY, ...})
generateAccessToken(payload, t) ==
    [type |-> "access", key |-> "JWT_SECRET", userId |-> payload.userId,
     email |-> payload.email, roles |-> orEmpty(payload.roles),
     permissions |-> orEmpty(payload.permissions),
     iat |-> t, exp |-> t + AccessTTL, tokenId |-> 0]

\* tid stands for crypto.randomBytes(16)
generateRefreshToken(payload, t, tid) ==
    [type |-> "refresh", key |-> "JWT_REFRESH_SECRET", userId |-> payload.userId,
     email |-> payload.email, roles |-> {}, permissions |-> {},
     iat |-> t, exp |-> t + RefreshTTL, tokenId |-> tid]

tokenPayload(user) ==
    [userId |-> user.id, email |-> user.email, roles |-> orEmpty(user.roles),
     permissions |-> orEmpty(user.permissions)]

generateTokenPair(user, t, tid) ==
    [accessToken |-> generateAccessToken(tokenPayload(user), t),
     refreshToken |-> generateRefreshToken(tokenPayload(user), t, tid)]

\* jwt.verify(token, secret): JsonWebTokenError when the signature does not
\* match the secret, then TokenExpiredError when clockTimestamp >= exp
jwt_verify(tok, secret, t) ==
    IF tok.type = "none" \/ tok.key # secret THEN "JsonWebTokenError"
    ELSE IF t >= tok.exp THEN "TokenExpiredError"
    ELSE "ok"

\* the payload jwt.verify returns: the claims without the signature
jwt_decoded(tok) ==
    [userId |-> tok.userId, email |-> tok.email, roles |-> tok.roles,
     permissions |-> tok.permissions, type |-> tok.type,
     iat |-> tok.iat, exp |-> tok.exp]

\* JavaScript null, where an object is expected
Null == [type |-> "null"]

\* faulty variant: access tokens of a subject with no unrevoked refresh
\* entry are turned away
verifyAccessToken_signedIn(tok, t) ==
    IF /\ jwt_verify(tok, "JWT_SECRET", t) = "ok" /\ tok.type = "access"
       /\ \E row \in ledger : row.user_id = tok.userId /\ ~row.revoked
        THEN jwt_decoded(tok)
        ELSE Null

\* the decoded payload, or null when jwt.verify throws or the type
\* discriminator is not 'access'
verifyAccessToken(tok, t) ==
    IF jwt_verify(tok, "JWT_SECRET", t) = "ok" /\ tok.type = "access"
        THEN jwt_decoded(tok)
        ELSE Null

\* faulty variant: the signature is not checked
verifyRefreshToken_unsigned(tok, t) ==
    /\ tok.type # "none"
    /\ t < tok.exp
    /\ tok.type = "refresh"

\* jwt.verify with JWT_REFRESH_SECRET, then the type discriminator; TRUE
\* stands for the decoded payload, FALSE for null
verifyRefreshToken(tok, t) ==
    /\ jwt_verify(tok, "JWT_REFRESH_SECRET", t) = "ok"
    /\ tok.type = "refresh"

getTokenExpiry(tok) == tok.exp

\* credentials no handler of this system has signed as refresh tokens
ForgedRefresh ==
    [type |-> "refresh", key |-> "forged", userId |-> 1,
     email |-> AdminEmail, roles |-> {}, permissions |-> {},
     iat |-> 0, exp |-> MaxTime + RefreshTTL + 1, tokenId |-> 1]

-----------------------------------------------------------------------------
(* models/RefreshToken.js over the refresh_tokens table *)

RowsOf(l, tok) == {row \in l : row.token = tok}

\* INSERT ... ; the UNIQUE constraint on token makes the statement throw
RefreshToken_canCreate(l, tok) == RowsOf(l, tok) = {}

RefreshToken_create(l, userId, tok, expiresAt, chain) ==
    l \cup {[token |-> tok, user_id |-> userId, expires_at |-> expiresAt,
             revoked |-> FALSE, chain |-> chain]}

\* faulty variant: a row that expires now still counts
RefreshToken_isValid_inclusive(l, tok, t) ==
    \E row \in l : row.token = tok /\ row.revoked = FALSE /\ row.expires_at >= t

RefreshToken_isValid(l, tok, t) ==
    \E row \in l : row.token = tok /\ row.revoked = FALSE /\ row.expires_at > t

\* faulty variant: the UPDATE matches every row of the token's owner
RefreshToken_revoke_wholeUser(l, tok) ==
    {IF \E own \in l : own.token = tok /\ own.user_id = row.user_id
        THEN [row EXCEPT !.revoked = TRUE] ELSE row : row \in l}

\* faulty variant: the UPDATE flips the flag
RefreshToken_revoke_toggle(l, tok) ==
    {IF row.token = tok THEN [row EXCEPT !.revoked = ~row.revoked] ELSE row : row \in l}

\* faulty variant: the UPDATE matches no row
RefreshToken_revoke_nothing(l, tok) == l

RefreshToken_revoke(l, tok) ==
    {IF row.token = tok THEN [row EXCEPT !.revoked = TRUE] ELSE row : row \in l}

RefreshToken_revokeAllForUser(l, userId) ==
    {IF row.user_id = userId /\ row.revoked = FALSE
        THEN [row EXCEPT !.revoked = TRUE] ELSE row : row \in l}

\* faulty variant: the sweep runs one tick ahead of the clock
RefreshToken_deleteExpired_early(l, t) == {row \in l : ~(row.expires_at <= t + 1)}

RefreshToken_deleteExpired(l, t) == {row \in l : ~(row.expires_at < t)}

-----------------------------------------------------------------------------
(* models/User.js over the users table *)

\* array_agg(...) FILTER (WHERE ... IS NOT NULL): NULL when nothing is joined
array_agg(xs) == IF xs = {} THEN NullArray ELSE xs

\* the SELECT of findByEmail / findById: the row joined with its role names
\* and their permission strings
User_select(u) ==
    [id |-> u.id, email |-> u.email, password_hash |-> u.password_hash,
     is_active |-> u.is_active, roles |-> array_agg(u.roles),
     permissions |-> array_agg(permissionsOf(u.roles))]

\* faulty variant: the e-mail is compared as it was typed
User_findByEmail_caseSensitive(us, email) ==
    IF \E u \in us : u.email = email
        THEN User_select(CHOOSE u \in us : u.email = email)
        ELSE NoUser

User_findByEmail(us, email) ==
    IF \E u \in us : u.email = toLowerCase(email)
        THEN User_select(CHOOSE u \in us : u.email = toLowerCase(email))
        ELSE NoUser

\* the column list of findById has no password_hash
User_findById(us, id) ==
    IF \E u \in us : u.id = id
        THEN LET u == CHOOSE u \in us : u.id = id
             IN [id |-> u.id, email |-> u.email, is_active |-> u.is_active,
                 roles |-> array_agg(u.roles),
                 permissions |-> array_agg(permissionsOf(u.roles))]
        ELSE NoUser

\* faulty variant: the object is returned as it was read
User_sanitize_asRead(user) == user

\* sanitize: a copy of the object without its password_hash
User_sanitize(user) ==
    [f \in DOMAIN user \ {"password_hash"} |-> user[f]]

User_emailExists(us, email) == \E u \in us : u.email = toLowerCase(email)

\* INSERT INTO users ...: the UNIQUE constraint on email makes it throw;
\* uuid_generate_v4() gives the row an id no other row has
\* faulty variant: the table has no UNIQUE constraint on email
User_canCreate_noConstraint(us, email) == TRUE

User_canCreate(us, email) == ~\E u \in us : u.email = toLowerCase(email)

User_create(us, email, password) ==
    [id |-> Cardinality(us) + 1, email |-> toLowerCase(email),
     password_hash |-> bcryptHash(password), is_active |-> TRUE, roles |-> {}]

\* RETURNING id, email, ..., is_active, ...: the object has no roles and no
\* permissions
User_returning(row) ==
    [id |-> row.id, email |-> row.email,
     is_active |-> row.is_active, roles |-> NullArray, permissions |-> NullArray]

-----------------------------------------------------------------------------
(* config/database.js: redisHelpers over the keys of the cache *)

sessionKey(id) == <<"session", id>>
userKey(id) == <<"user", id>>

redis_set(ss, key, value) ==
    {e \in ss : e.key # key} \cup {[key |-> key, value |-> value]}
redis_get(ss, key) ==
    IF \E e \in ss : e.key = key THEN (CHOOSE e \in ss : e.key = key).value
    ELSE Null
redis_del(ss, key) == {e \in ss : e.key # key}

-----------------------------------------------------------------------------
(* Request slots *)

IdleReq ==
    [kind |-> "none", pc |-> "idle", token |-> NoToken, user |-> NoUser,
     tokens |-> NoTokens, minted |-> NoToken, status |-> 0, code |-> "",
     replay |-> FALSE, afterLogout |-> FALSE, chain |-> NoToken,
     flipped |-> FALSE, writes |-> {}, second |-> FALSE, details |-> <<>>]

Free(r) == rq[r].pc = "idle"

\* res.status(s).json(...): the error envelope, or the success envelope with
\* the token pair
Respond(req, s, c, toks) ==
    [req EXCEPT !.pc = "done", !.status = s, !.code = c, !.tokens = toks,
                !.user = NoUser, !.chain = NoToken]

\* A request arrives and runs up to its first await on shared state: req is
\* its record there. One that has answered already leaves only its response;
\* another takes the lowest free slot (the slots are interchangeable).
Accept(r, req) ==
    /\ Free(r)
    /\ \A r2 \in Reqs : r2 < r => ~Free(r2)
    /\ started < MaxStarts
    /\ started' = started + 1
    /\ IF req.pc = "done"
          THEN /\ last' = req
               /\ UNCHANGED rq
          ELSE /\ rq' = [rq EXCEPT ![r] = req]
               /\ UNCHANGED last

\* the request in slot r takes a step to the record req
Step(r, req) ==
    IF req.pc = "done"
        THEN /\ last' = req
             /\ rq' = [rq EXCEPT ![r] = IdleReq]
        ELSE /\ rq' = [rq EXCEPT ![r] = req]
             /\ UNCHANGED last

\* bookkeeping of the rows that are revoked in, or gone from, the next ledger l2
Retire(l2) ==
    retired \cup {row.token : row \in {x \in l2 : x.revoked}}
            \cup {row.token : row \in {x \in ledger : RowsOf(l2, x.token) = {}}}

PresentableRefresh == {p.refreshToken : p \in delivered} \cup {ForgedRefresh}
PresentableAccess == {p.accessToken : p \in delivered}

\* refresh credentials that occur anywhere in the state
KnownRefresh ==
    {row.token : row \in ledger} \cup {p.refreshToken : p \in delivered}
        \cup {rq[r].minted : r \in Reqs}

\* the token ids drawn so far for this subject and second
usedTokenIds(userId, t) ==
    {k.tokenId : k \in {x \in (KnownRefresh \cup retired) \ {NoToken} :
                            x.userId = userId /\ x.iat = t}}

\* faulty variant: a token id drawn before can be drawn again
randomTokenIds_reused(userId, t) ==
    LET fresh == TokenIds \ usedTokenIds(userId, t)
    IN usedTokenIds(userId, t)
        \cup (IF fresh = {} THEN {}
              ELSE {CHOOSE i \in fresh : \A j \in fresh : i <= j})

\* tokenId: crypto.randomBytes(16).toString('hex') // Unique token ID
\* 128 random bits: a value no issuance has drawn before; up to renaming,
\* the least one not drawn yet
randomTokenIds(userId, t) ==
    LET fresh == TokenIds \ usedTokenIds(userId, t)
    IN IF fresh = {} THEN {}
       ELSE {CHOOSE i \in fresh : \A j \in fresh : i <= j}

\* no call of a verification function is being looked at
NoProbe == [pc |-> "none"]

Init ==
    /\ now = 0
    /\ users = SeedUsers
    /\ ledger = {}
    /\ sessions = {}
    /\ rq = [r \in Reqs |-> IdleReq]
    /\ last = IdleReq
    /\ delivered = {}
    /\ rotated = {}
    /\ loggedOut = {}
    /\ retired = {}
    /\ started = 0
    /\ probe = NoProbe

-----------------------------------------------------------------------------
(* AuthController.register *)

RegisterStart(r, e) ==
    /\ LET req == [IdleReq EXCEPT !.kind = "register", !.pc = "createUser",
                                  !.user = [id |-> 0, email |-> e]]
       IN \/ Accept(r, Respond(req, 500, "REGISTRATION_FAILED", NoTokens))
          \/ Accept(r, IF User_emailExists(users, e)
                          THEN Respond(req, 409, "EMAIL_EXISTS", NoTokens)
                          ELSE req)
    /\ UNCHANGED <<now, probe, users, ledger, sessions, delivered, rotated, loggedOut, retired>>

RegisterCreateUser(r, p) ==
    /\ rq[r].kind = "register" /\ rq[r].pc = "createUser"
    /\ LET user == User_create(users, rq[r].user.email, p)
       IN \/ /\ Step(r, Respond(rq[r], 500, "REGISTRATION_FAILED", NoTokens))
             /\ UNCHANGED users
          \/ /\ User_canCreate(users, rq[r].user.email)
             /\ users' = users \cup {user}
             /\ \E tid \in randomTokenIds(user.id, now) :
                  Step(r, [rq[r] EXCEPT !.pc = "create",
                              !.user = User_returning(user),
                              !.tokens = generateTokenPair(User_returning(user), now, tid),
                              !.minted = generateTokenPair(User_returning(user), now, tid).refreshToken])
    /\ UNCHANGED <<now, probe, ledger, sessions, delivered, rotated, loggedOut, retired, started>>

RegisterCreate(r) ==
    /\ rq[r].kind = "register" /\ rq[r].pc = "create"
    /\ LET tok == rq[r].tokens.refreshToken
       IN \/ /\ Step(r, Respond(rq[r], 500, "REGISTRATION_FAILED", NoTokens))
             /\ UNCHANGED ledger
          \/ /\ RefreshToken_canCreate(ledger, tok)
             /\ ledger' = RefreshToken_create(ledger, rq[r].user.id, tok,
                                              getTokenExpiry(tok), tok)
             /\ Step(r, [rq[r] EXCEPT !.pc = "session", !.writes = @ \cup {"create"}])
    /\ UNCHANGED <<now, probe, users, sessions, delivered, rotated, loggedOut, started>>
    /\ retired' = Retire(ledger')

RegisterSession(r) ==
    /\ rq[r].kind = "register" /\ rq[r].pc = "session"
    /\ sessions' \in {redis_set(sessions, sessionKey(rq[r].user.id),
                                 [userId |-> rq[r].user.id, email |-> rq[r].user.email,
                                  roles |-> NullArray, permissions |-> NullArray]),
                       sessions}
    /\ Step(r, [Respond(rq[r], 201, "", rq[r].tokens)
                    EXCEPT !.user = User_sanitize(rq[r].user)])
    /\ delivered' = delivered \cup {rq[r].tokens}
    /\ UNCHANGED <<now, probe, users, ledger, rotated, loggedOut, retired, started>>

-----------------------------------------------------------------------------
(* AuthController.login *)

\* faulty variant: a disabled account passes
LoginStart_disabledPasses(r, e, p) ==
    /\ LET req == [IdleReq EXCEPT !.kind = "login", !.pc = "updateLastLogin"]
           user == User_findByEmail(users, e)
       IN \/ Accept(r, Respond(req, 500, "LOGIN_FAILED", NoTokens))
          \/ Accept(r,
                IF user = NoUser
                    THEN Respond(req, 401, "INVALID_CREDENTIALS", NoTokens)
                ELSE IF ~verifyPassword(p, user.password_hash)
                    THEN Respond(req, 401, "INVALID_CREDENTIALS", NoTokens)
                ELSE [req EXCEPT !.user = user])
    /\ UNCHANGED <<now, probe, users, ledger, sessions, delivered, rotated, loggedOut, retired>>

LoginStart(r, e, p) ==
    /\ LET req == [IdleReq EXCEPT !.kind = "login", !.pc = "updateLastLogin"]
           user == User_findByEmail(users, e)
       IN \/ Accept(r, Respond(req, 500, "LOGIN_FAILED", NoTokens))
          \/ Accept(r,
                IF user = NoUser
                    THEN Respond(req, 401, "INVALID_CREDENTIALS", NoTokens)
                ELSE IF ~user.is_active
                    THEN Respond(req, 403, "ACCOUNT_DISABLED", NoTokens)
                ELSE IF ~verifyPassword(p, user.password_hash)
                    THEN Respond(req, 401, "INVALID_CREDENTIALS", NoTokens)
                ELSE [req EXCEPT !.user = user])
    /\ UNCHANGED <<now, probe, users, ledger, sessions, delivered, rotated, loggedOut, retired>>

LoginUpdateLastLogin(r) ==
    /\ rq[r].kind = "login" /\ rq[r].pc = "updateLastLogin"
    /\ \/ Step(r, Respond(rq[r], 500, "LOGIN_FAILED", NoTokens))
       \/ \E tid \in randomTokenIds(rq[r].user.id, now) :
            Step(r, [rq[r] EXCEPT !.pc = "create",
                          !.writes = @ \cup {"updateLastLogin"},
                          !.tokens = generateTokenPair(rq[r].user, now, tid),
                          !.minted = generateTokenPair(rq[r].user, now, tid).refreshToken])
    /\ UNCHANGED <<now, probe, users, ledger, sessions, delivered, rotated, loggedOut, retired, started>>

\* faulty variant: a failed insert is swallowed and the login goes on
LoginCreate_failureSwallowed(r) ==
    /\ rq[r].kind = "login" /\ rq[r].pc = "create"
    /\ LET tok == rq[r].tokens.refreshToken
       IN \/ /\ Step(r, [rq[r] EXCEPT !.pc = "session"])
             /\ UNCHANGED ledger
          \/ /\ RefreshToken_canCreate(ledger, tok)
             /\ ledger' = RefreshToken_create(ledger, rq[r].user.id, tok,
                                              getTokenExpiry(tok), tok)
             /\ Step(r, [rq[r] EXCEPT !.pc = "session", !.writes = @ \cup {"create"}])
    /\ UNCHANGED <<now, probe, users, sessions, delivered, rotated, loggedOut, started>>
    /\ retired' = Retire(ledger')

LoginCreate(r) ==
    /\ rq[r].kind = "login" /\ rq[r].pc = "create"
    /\ LET tok == rq[r].tokens.refreshToken
       IN \/ /\ Step(r, Respond(rq[r], 500, "LOGIN_FAILED", NoTokens))
             /\ UNCHANGED ledger
          \/ /\ RefreshToken_canCreate(ledger, tok)
             /\ ledger' = RefreshToken_create(ledger, rq[r].user.id, tok,
                                              getTokenExpiry(tok), tok)
             /\ Step(r, [rq[r] EXCEPT !.pc = "session", !.writes = @ \cup {"create"}])
    /\ UNCHANGED <<now, probe, users, sessions, delivered, rotated, loggedOut, started>>
    /\ retired' = Retire(ledger')

LoginSession(r) ==
    /\ rq[r].kind = "login" /\ rq[r].pc = "session"
    /\ sessions' \in {redis_set(sessions, sessionKey(rq[r].user.id),
                                 [userId |-> rq[r].user.id, email |-> rq[r].user.email,
                                  roles |-> rq[r].user.roles,
                                  permissions |-> rq[r].user.permissions]),
                       sessions}
    /\ Step(r, [Respond(rq[r], 200, "", rq[r].tokens)
                    EXCEPT !.user = User_sanitize(rq[r].user)])
    /\ delivered' = delivered \cup {rq[r].tokens}
    /\ UNCHANGED <<now, probe, users, ledger, rotated, loggedOut, retired, started>>

-----------------------------------------------------------------------------
(* AuthController.refresh *)

RefreshStart(r, tok) ==
    /\ LET req == [IdleReq EXCEPT !.kind = "refresh", !.pc = "isValid",
                                  !.token = tok,
                                  !.replay = (tok \in rotated),
                                  !.afterLogout = (tok \in loggedOut)]
       IN Accept(r, IF ~verifyRefreshToken(tok, now)
                       THEN Respond(req, 401, "INVALID_TOKEN", NoTokens)
                       ELSE req)
    /\ UNCHANGED <<now, probe, users, ledger, sessions, delivered, rotated, loggedOut, retired>>

RefreshIsValid(r) ==
    /\ rq[r].kind = "refresh" /\ rq[r].pc = "isValid"
    /\ \/ Step(r, Respond(rq[r], 500, "REFRESH_FAILED", NoTokens))
       \/ Step(r, IF ~RefreshToken_isValid(ledger, rq[r].token, now)
                THEN Respond(rq[r], 401, "TOKEN_REVOKED", NoTokens)
                ELSE [rq[r] EXCEPT !.pc = "findById",
                               !.chain = (CHOOSE row \in RowsOf(ledger, rq[r].token) :
                                            ~row.revoked).chain])
    /\ UNCHANGED <<now, probe, users, ledger, sessions, delivered, rotated, loggedOut, retired, started>>

\* faulty variant: is_active is not looked at
RefreshUserOk_anyUser(user) == user # NoUser

\* if (!user || !user.is_active)
RefreshUserOk(user) == user # NoUser /\ user.is_active

\* faulty variant: the new pair repeats the roles and permissions of the
\* pair that is replaced
RefreshFindById_fromPresented(r) ==
    /\ rq[r].kind = "refresh" /\ rq[r].pc = "findById"
    /\ LET read == User_findById(users, rq[r].token.userId)
           old == {p.accessToken : p \in {d \in delivered : d.refreshToken = rq[r].token}}
           user == IF read = NoUser \/ old = {} THEN read
                   ELSE [read EXCEPT !.roles = (CHOOSE a \in old : TRUE).roles,
                                     !.permissions = (CHOOSE a \in old : TRUE).permissions]
       IN \/ Step(r, Respond(rq[r], 500, "REFRESH_FAILED", NoTokens))
          \/ /\ ~RefreshUserOk(user)
             /\ Step(r, Respond(rq[r], 401, "UNAUTHORIZED", NoTokens))
          \/ /\ RefreshUserOk(user)
             /\ \E tid \in randomTokenIds(user.id, now) :
                    Step(r, [rq[r] EXCEPT !.pc = "revoke", !.user = user,
                                  !.tokens = generateTokenPair(user, now, tid),
                                  !.minted = generateTokenPair(user, now, tid).refreshToken])
    /\ UNCHANGED <<now, probe, users, ledger, sessions, delivered, rotated, loggedOut, retired, started>>

RefreshFindById(r) ==
    /\ rq[r].kind = "refresh" /\ rq[r].pc = "findById"
    /\ LET user == User_findById(users, rq[r].token.userId)
       IN \/ Step(r, Respond(rq[r], 500, "REFRESH_FAILED", NoTokens))
          \/ /\ ~RefreshUserOk(user)
             /\ Step(r, Respond(rq[r], 401, "UNAUTHORIZED", NoTokens))
          \/ /\ RefreshUserOk(user)
             /\ \E tid \in randomTokenIds(user.id, now) :
                    Step(r, [rq[r] EXCEPT !.pc = "revoke", !.user = user,
                                  !.tokens = generateTokenPair(user, now, tid),
                                  !.minted = generateTokenPair(user, now, tid).refreshToken])
    /\ UNCHANGED <<now, probe, users, ledger, sessions, delivered, rotated, loggedOut, retired, started>>

\* faulty variant: the new entry is recorded first, the presented one revoked after
RefreshRevoke_recordFirst(r) ==
    /\ rq[r].kind = "refresh" /\ rq[r].pc = "revoke"
    /\ RefreshToken_canCreate(ledger, rq[r].minted)
    /\ ledger' = RefreshToken_create(ledger, rq[r].user.id, rq[r].minted,
                                     getTokenExpiry(rq[r].minted), rq[r].chain)
    /\ Step(r, [rq[r] EXCEPT !.pc = "create", !.writes = @ \cup {"create"}])
    /\ UNCHANGED <<now, probe, users, sessions, delivered, rotated, loggedOut, started>>
    /\ retired' = Retire(ledger')

RefreshRevoke(r) ==
    /\ rq[r].kind = "refresh" /\ rq[r].pc = "revoke"
    /\ \/ /\ Step(r, Respond(rq[r], 500, "REFRESH_FAILED", NoTokens))
          /\ UNCHANGED ledger
       \/ /\ ledger' = RefreshToken_revoke(ledger, rq[r].token)
          /\ Step(r, [rq[r] EXCEPT !.pc = "create",
                          !.flipped = RefreshToken_isValid(ledger, rq[r].token, now),
                          !.writes = @ \cup {"revoke"}])
    /\ UNCHANGED <<now, probe, users, sessions, delivered, rotated, loggedOut, started>>
    /\ retired' = Retire(ledger')

\* faulty variant: the new entry is recorded under the first registered
\* principal
RefreshCreate_fixedOwner(r) ==
    /\ rq[r].kind = "refresh" /\ rq[r].pc = "create"
    /\ LET tok == rq[r].tokens.refreshToken
       IN \/ /\ Step(r, Respond(rq[r], 500, "REFRESH_FAILED", NoTokens))
             /\ UNCHANGED <<ledger, delivered, rotated>>
          \/ /\ RefreshToken_canCreate(ledger, tok)
             /\ ledger' = RefreshToken_create(ledger, 2, tok,
                                              getTokenExpiry(tok), rq[r].chain)
             /\ Step(r, Respond([rq[r] EXCEPT !.writes = @ \cup {"create"},
                                               !.second = (rq[r].token \in rotated)],
                                 200, "", rq[r].tokens))
             /\ delivered' = delivered \cup {rq[r].tokens}
             /\ rotated' = rotated \cup {rq[r].token}
    /\ UNCHANGED <<now, probe, users, sessions, loggedOut, started>>
    /\ retired' = Retire(ledger')

RefreshCreate(r) ==
    /\ rq[r].kind = "refresh" /\ rq[r].pc = "create"
    /\ LET tok == rq[r].tokens.refreshToken
       IN \/ /\ Step(r, Respond(rq[r], 500, "REFRESH_FAILED", NoTokens))
             /\ UNCHANGED <<ledger, delivered, rotated>>
          \/ /\ RefreshToken_canCreate(ledger, tok)
             /\ ledger' = RefreshToken_create(ledger, rq[r].user.id, tok,
                                              getTokenExpiry(tok), rq[r].chain)
             /\ Step(r, Respond([rq[r] EXCEPT !.writes = @ \cup {"create"},
                                               !.second = (rq[r].token \in rotated)],
                                 200, "", rq[r].tokens))
             /\ delivered' = delivered \cup {rq[r].tokens}
             /\ rotated' = rotated \cup {rq[r].token}
    /\ UNCHANGED <<now, probe, users, sessions, loggedOut, started>>
    /\ retired' = Retire(ledger')

-----------------------------------------------------------------------------
(* authenticate middleware, then AuthController.logout *)

\* const parts = authHeader.split(' '); Bearer <token>
extractTokenFromHeader(h) ==
    IF h.scheme = "Bearer" /\ h.token # NoToken THEN h.token ELSE NoToken

\* faulty variant: a request without a session entry is turned away
authenticate_sessionRequired(h, t, ss) ==
    LET token == extractTokenFromHeader(h)
        decoded == verifyAccessToken(token, t)
    IN IF token = NoToken
           THEN [outcome |-> "Rejected", status |-> 401, code |-> "NO_TOKEN",
                 user |-> Null, responses |-> 1, next |-> 0]
       ELSE IF decoded = Null
           THEN [outcome |-> "Rejected", status |-> 401, code |-> "INVALID_TOKEN",
                 user |-> Null, responses |-> 1, next |-> 0]
       ELSE IF redis_get(ss, sessionKey(decoded.userId)) = Null
           THEN [outcome |-> "Rejected", status |-> 401, code |-> "SESSION_EXPIRED",
                 user |-> Null, responses |-> 1, next |-> 0]
       ELSE [outcome |-> "Verified", status |-> 0, code |-> "",
             user |-> [userId |-> decoded.userId, email |-> decoded.email,
                       roles |-> orEmpty(decoded.roles),
                       permissions |-> orEmpty(decoded.permissions)],
             responses |-> 0, next |-> 1]

\* faulty variant: the error responses are sent without return, so that
\* next() is reached as well
authenticate_noReturn(h, t, ss) ==
    LET token == extractTokenFromHeader(h)
        decoded == verifyAccessToken(token, t)
    IN IF token = NoToken
           THEN [outcome |-> "Rejected", status |-> 401, code |-> "NO_TOKEN",
                 user |-> Null, responses |-> 1, next |-> 1]
       ELSE IF decoded = Null
           THEN [outcome |-> "Rejected", status |-> 401, code |-> "INVALID_TOKEN",
                 user |-> Null, responses |-> 1, next |-> 1]
       ELSE [outcome |-> "Verified", status |-> 0, code |-> "",
             user |-> [userId |-> decoded.userId, email |-> decoded.email,
                       roles |-> orEmpty(decoded.roles),
                       permissions |-> orEmpty(decoded.permissions)],
             responses |-> 0, next |-> 1]

\* middleware/auth.js: authenticate on Authorization header h at time t, the
\* cache read seeing the entries ss. The result is what the middleware does:
\* the response it sends or the req.user it attaches, and how often it calls
\* next()
authenticate(h, t, ss) ==
    LET token == extractTokenFromHeader(h)
        decoded == verifyAccessToken(token, t)
        session == IF decoded = Null THEN Null
                   ELSE redis_get(ss, sessionKey(decoded.userId))
    IN IF token = NoToken
           THEN [outcome |-> "Rejected", status |-> 401, code |-> "NO_TOKEN",
                 user |-> Null, responses |-> 1, next |-> 0]
       ELSE IF decoded = Null
           THEN [outcome |-> "Rejected", status |-> 401, code |-> "INVALID_TOKEN",
                 user |-> Null, responses |-> 1, next |-> 0]
       ELSE [outcome |-> "Verified", status |-> 0, code |-> "",
             user |-> [userId |-> decoded.userId, email |-> decoded.email,
                       roles |-> orEmpty(decoded.roles),
                       permissions |-> orEmpty(decoded.permissions)],
             responses |-> 0, next |-> 1]

\* optionalAuth: req.user is set when the header holds a token that
\* verifyAccessToken accepts; next() is called in every case
optionalAuth(h, t) ==
    LET token == extractTokenFromHeader(h)
        decoded == verifyAccessToken(token, t)
    IN IF token # NoToken /\ decoded # Null
           THEN [outcome |-> "Verified", status |-> 0, code |-> "",
                 user |-> [userId |-> decoded.userId, email |-> decoded.email,
                           roles |-> orEmpty(decoded.roles),
                           permissions |-> orEmpty(decoded.permissions)],
                 responses |-> 0, next |-> 1]
           ELSE [outcome |-> "Anonymous", status |-> 0, code |-> "",
                 user |-> Null, responses |-> 0, next |-> 1]

\* what a gate does that lets the request through
Proceed(user) ==
    [outcome |-> "Allowed", status |-> 0, code |-> "", user |-> user,
     responses |-> 0, next |-> 1]

Reject(s, c) ==
    [outcome |-> "Rejected", status |-> s, code |-> c, user |-> Null,
     responses |-> 1, next |-> 0]

\* faulty variant: every listed role is demanded
authorize_allOf(user, allowedRoles) ==
    IF user = Null THEN Reject(401, "UNAUTHORIZED")
    ELSE IF ~(allowedRoles # {} /\ allowedRoles \subseteq orEmpty(user.roles))
        THEN Reject(403, "FORBIDDEN")
    ELSE Proceed(user)

\* authorize(...allowedRoles) on req.user (Null when no middleware set it):
\* allowedRoles.some(role => userRoles.includes(role))
authorize(user, allowedRoles) ==
    IF user = Null THEN Reject(401, "UNAUTHORIZED")
    ELSE IF ~(\E role \in allowedRoles : role \in orEmpty(user.roles))
        THEN Reject(403, "FORBIDDEN")
    ELSE Proceed(user)

\* faulty variant: any permission at all opens the route
requirePermission_anyPermission(user, permission) ==
    IF user = Null THEN Reject(401, "UNAUTHORIZED")
    ELSE IF orEmpty(user.permissions) = {}
        THEN Reject(403, "INSUFFICIENT_PERMISSIONS")
    ELSE Proceed(user)

\* requirePermission(permission) on req.user: userPermissions.includes
requirePermission(user, permission) ==
    IF user = Null THEN Reject(401, "UNAUTHORIZED")
    ELSE IF permission \notin orEmpty(user.permissions)
        THEN Reject(403, "INSUFFICIENT_PERMISSIONS")
    ELSE Proceed(user)

\* router.post('/logout', authenticate, AuthController.logout); a failing
\* Redis GET reads as an empty cache
LogoutStart(r, h, tok) ==
    /\ \E ss \in {sessions, {}} :
        LET auth == authenticate(h, now, ss)
            req == [IdleReq EXCEPT !.kind = "logout", !.token = tok,
                                   !.pc = IF tok # NoToken THEN "revoke" ELSE "del"]
        IN Accept(r,
                IF auth.outcome = "Rejected"
                    THEN Respond(req, auth.status, auth.code, NoTokens)
                    ELSE [req EXCEPT !.user = [id |-> auth.user.userId]])
    /\ UNCHANGED <<now, probe, users, ledger, sessions, delivered, rotated, loggedOut, retired>>

\* faulty variant: logout only clears the session
LogoutRevoke_sessionOnly(r) ==
    /\ rq[r].kind = "logout" /\ rq[r].pc = "revoke"
    /\ Step(r, [rq[r] EXCEPT !.pc = "del"])
    /\ UNCHANGED <<now, probe, users, ledger, sessions, delivered, rotated, loggedOut, retired, started>>

LogoutRevoke(r) ==
    /\ rq[r].kind = "logout" /\ rq[r].pc = "revoke"
    /\ \/ /\ Step(r, Respond(rq[r], 500, "LOGOUT_FAILED", NoTokens))
          /\ UNCHANGED ledger
       \/ /\ ledger' = RefreshToken_revoke(ledger, rq[r].token)
          /\ Step(r, [rq[r] EXCEPT !.pc = "del",
                          !.flipped = RefreshToken_isValid(ledger, rq[r].token, now),
                          !.writes = @ \cup {"revoke"}])
    /\ UNCHANGED <<now, probe, users, sessions, delivered, rotated, loggedOut, started>>
    /\ retired' = Retire(ledger')

LogoutDel(r) ==
    /\ rq[r].kind = "logout" /\ rq[r].pc = "del"
    /\ sessions' \in {redis_del(sessions, sessionKey(rq[r].user.id)), sessions}
    /\ Step(r, [Respond(rq[r], 200, "", NoTokens) EXCEPT !.user = rq[r].user])
    /\ loggedOut' = loggedOut \cup ({rq[r].token} \ {NoToken})
    /\ UNCHANGED <<now, probe, users, ledger, delivered, rotated, started, retired>>

-----------------------------------------------------------------------------
(* Operations outside the auth-service handlers *)

\* user-service UserModel.update / UserModel.delete on is_active
UserModel_update(id, active) ==
    /\ \E u \in users : u.id = id /\ u.is_active # active
    /\ users' = {IF u.id = id THEN [u EXCEPT !.is_active = active] ELSE u : u \in users}
    /\ UNCHANGED <<now, probe, ledger, sessions, rq, last, delivered, rotated, loggedOut, retired, started>>

\* administrative sign-out everywhere
RevokeAllForUser(id) ==
    /\ \E row \in ledger : row.user_id = id /\ ~row.revoked
    /\ ledger' = RefreshToken_revokeAllForUser(ledger, id)
    /\ UNCHANGED <<now, probe, users, sessions, rq, last, delivered, rotated, loggedOut, started>>
    /\ retired' = Retire(ledger')

\* the storage-hygiene sweep
DeleteExpired ==
    /\ ledger' = RefreshToken_deleteExpired(ledger, now)
    /\ ledger' # ledger
    /\ UNCHANGED <<now, probe, users, sessions, rq, last, delivered, rotated, loggedOut, started>>
    /\ retired' = Retire(ledger')

\* a session key reaches its TTL
SessionExpire(id) ==
    /\ redis_get(sessions, sessionKey(id)) # Null
    /\ sessions' = redis_del(sessions, sessionKey(id))
    /\ UNCHANGED <<now, probe, users, ledger, rq, last, delivered, rotated, loggedOut, retired, started>>

Tick ==
    /\ now < MaxTime
    /\ now' = now + 1
    /\ UNCHANGED <<probe, users, ledger, sessions, rq, last, delivered, rotated, loggedOut, retired, started>>

\* the accounts the administrative operations are applied to: the registered
\* ones (the seeded administrator can own no credential, see SeedUsers)
UserIds == {u.id : u \in users \ SeedUsers}
Headers ==
    {[scheme |-> "Bearer", token |-> a] : a \in PresentableAccess}
        \cup {[scheme |-> "", token |-> NoToken]}

\* AuthController.refresh run without interruption on ledger l and users us:
\* the code of its answer
refreshOutcome(l, us, tok, t) ==
    IF ~verifyRefreshToken(tok, t) THEN "INVALID_TOKEN"
    ELSE IF ~RefreshToken_isValid(l, tok, t) THEN "TOKEN_REVOKED"
    ELSE IF ~RefreshUserOk(User_findById(us, tok.userId)) THEN "UNAUTHORIZED"
    ELSE "OK"

Next ==
    \/ \E r \in Reqs, e \in EmailInputs : RegisterStart(r, e)
    \/ \E r \in Reqs, p \in RegisterPasswords : RegisterCreateUser(r, p)
    \/ \E r \in Reqs : RegisterCreate(r)
    \/ \E r \in Reqs : RegisterSession(r)
    \/ \E r \in Reqs, e \in EmailInputs, p \in Passwords : LoginStart(r, e, p)
    \/ \E r \in Reqs : LoginUpdateLastLogin(r)
    \/ \E r \in Reqs : LoginCreate(r)
    \/ \E r \in Reqs : LoginSession(r)
    \/ \E r \in Reqs, tok \in PresentableRefresh : RefreshStart(r, tok)
    \/ \E r \in Reqs : RefreshIsValid(r)
    \/ \E r \in Reqs : RefreshFindById(r)
    \/ \E r \in Reqs : RefreshRevoke(r)
    \/ \E r \in Reqs : RefreshCreate(r)
    \/ \E r \in Reqs, h \in Headers, tok \in PresentableRefresh \cup {NoToken} :
            LogoutStart(r, h, tok)
    \/ \E r \in Reqs : LogoutRevoke(r)
    \/ \E r \in Reqs : LogoutDel(r)
    \/ \E id \in UserIds, active \in BOOLEAN : UserModel_update(id, active)
    \/ \E id \in UserIds : RevokeAllForUser(id)
    \/ DeleteExpired
    \/ \E id \in UserIds : SessionExpire(id)
    \/ Tick

Spec == Init /\ [][Next]_vars

\* refresh credentials signed by a handler whose ledger insert failed: the
\* response did not carry them and the ledger has no row of them
OrphanRefresh ==
    {last.minted} \ ({NoToken} \cup {row.token : row \in ledger}
                               \cup {p.refreshToken : p \in delivered})

\* the auth routes, with POST /refresh presenting such a credential too
NextLedger ==
    \/ Next
    \/ \E r \in Reqs, tok \in OrphanRefresh : RefreshStart(r, tok)

SpecLedger == Init /\ [][NextLedger]_vars

\* Two principals have registered and hold the pair of their registration:
\* the state after two runs of AuthController.register
BobEmail == "bob@example.com"
Alice == User_create(SeedUsers, AliceEmail, "Str0ng!Pass")
Bob == User_create(SeedUsers \cup {Alice}, BobEmail, "Str0ng!Pass")
PairOf(u) == generateTokenPair(User_returning(u), 0, 1)

RegisteredLedger ==
    LET a == PairOf(Alice).refreshToken
        b == PairOf(Bob).refreshToken
    IN RefreshToken_create(RefreshToken_create({}, Alice.id, a, getTokenExpiry(a), a),
                           Bob.id, b, getTokenExpiry(b), b)

InitLogout ==
    /\ now = 0
    /\ users = SeedUsers \cup {Alice, Bob}
    /\ ledger = RegisteredLedger
    /\ sessions = {}
    /\ rq = [r \in Reqs |-> IdleReq]
    /\ last = IdleReq
    /\ delivered = {PairOf(Alice), PairOf(Bob)}
    /\ rotated = {}
    /\ loggedOut = {}
    /\ retired = {}
    /\ started = 0
    /\ probe = NoProbe

\* login, logout and refresh requests of the two principals; the clock
\* stands still, every credential is inside its window
NextLogout ==
    \/ \E r \in Reqs, e \in {AliceEmail, BobEmail}, p \in RegisterPasswords :
            LoginStart(r, e, p)
    \/ \E r \in Reqs : LoginUpdateLastLogin(r)
    \/ \E r \in Reqs : LoginCreate(r)
    \/ \E r \in Reqs : LoginSession(r)
    \/ \E r \in Reqs, h \in Headers, tok \in PresentableRefresh \cup {NoToken} :
            LogoutStart(r, h, tok)
    \/ \E r \in Reqs : LogoutRevoke(r)
    \/ \E r \in Reqs : LogoutDel(r)
    \/ \E r \in Reqs, tok \in PresentableRefresh : RefreshStart(r, tok)
    \/ \E r \in Reqs : RefreshIsValid(r)
    \/ \E r \in Reqs : RefreshFindById(r)
    \/ \E r \in Reqs : RefreshRevoke(r)
    \/ \E r \in Reqs : RefreshCreate(r)

SpecLogout == InitLogout /\ [][NextLogout]_vars

-----------------------------------------------------------------------------
(* user-service: UserController over UserModel and the cache *)

\* the answer of a user-service handler about principal id
UserAnswer(kind, id, s, c) ==
    [IdleReq EXCEPT !.kind = kind, !.pc = "done", !.status = s, !.code = c,
                    !.user = [id |-> id]]

UserFrame ==
    UNCHANGED <<now, probe, ledger, rq, delivered, rotated, loggedOut, retired, started>>

\* what a handler does after its UserModel call went through: it deletes
\* the user:<id> key (a failing DEL is swallowed) and answers 200
Invalidate(kind, id) ==
    /\ sessions' \in {redis_del(sessions, userKey(id)), sessions}
    /\ last' = UserAnswer(kind, id, 200, "")

\* UserModel.findById: the column list has no password_hash
UserModel_findById(us, id) ==
    IF \E u \in us : u.id = id
        THEN LET u == CHOOSE u \in us : u.id = id
             IN [id |-> u.id, email |-> u.email, is_active |-> u.is_active,
                 roles |-> array_agg(u.roles),
                 permissions |-> array_agg(permissionsOf(u.roles))]
        ELSE Null

\* the cached read of getProfile and getUserById: the user:<id> key answers
\* when it is there and is filled on a miss; delete user.password_hash
CachedRead(kind, id) ==
    LET cached == redis_get(sessions, userKey(id))
        user == IF cached # Null THEN cached ELSE UserModel_findById(users, id)
    IN /\ IF cached # Null THEN UNCHANGED sessions
          ELSE IF user = Null THEN UNCHANGED sessions
          ELSE sessions' \in {redis_set(sessions, userKey(id), user), sessions}
       /\ last' = IF user = Null
                    THEN UserAnswer(kind, id, 404, "USER_NOT_FOUND")
                    ELSE [UserAnswer(kind, id, 200, "")
                            EXCEPT !.user = [f \in DOMAIN user \ {"password_hash"} |-> user[f]]]
       /\ UNCHANGED users
       /\ UserFrame

\* GET /profile
UserController_getProfile(id) == CachedRead("getProfile", id)

\* GET /:id
UserController_getUserById(id) == CachedRead("getUserById", id)

\* GET /api/auth/verify behind authenticate: id is req.user.userId
AuthController_verify(id) ==
    /\ LET user == User_findById(users, id)
       IN last' = IF user = NoUser \/ ~user.is_active
                    THEN UserAnswer("verify", id, 401, "UNAUTHORIZED")
                    ELSE [UserAnswer("verify", id, 200, "")
                            EXCEPT !.user = User_sanitize(user)]
    /\ UNCHANGED <<users, sessions>>
    /\ UserFrame

\* GET /api/auth/me behind authenticate: id is req.user.userId
AuthController_getCurrentUser(id) ==
    /\ LET user == User_findById(users, id)
       IN last' = IF user = NoUser
                    THEN UserAnswer("me", id, 404, "USER_NOT_FOUND")
                    ELSE [UserAnswer("me", id, 200, "")
                            EXCEPT !.user = User_sanitize(user)]
    /\ UNCHANGED <<users, sessions>>
    /\ UserFrame

\* PUT /profile with is_active among the updates
UserController_updateProfile(id, active) ==
    /\ users' = {IF u.id = id THEN [u EXCEPT !.is_active = active] ELSE u : u \in users}
    /\ Invalidate("updateProfile", id)
    /\ UserFrame

\* PUT /:id with is_active among the updates
UserController_updateUser(id, active) ==
    /\ users' = {IF u.id = id THEN [u EXCEPT !.is_active = active] ELSE u : u \in users}
    /\ Invalidate("updateUser", id)
    /\ UserFrame

\* DELETE /:id: the soft delete
UserController_deleteUser(id) ==
    /\ users' = {IF u.id = id THEN [u EXCEPT !.is_active = FALSE] ELSE u : u \in users}
    /\ Invalidate("deleteUser", id)
    /\ UserFrame

\* POST /:id/roles: INSERT ... ON CONFLICT DO NOTHING RETURNING *
UserController_assignRole(id, role) ==
    /\ \/ /\ \E u \in users : u.id = id /\ role \in u.roles
          /\ last' = UserAnswer("assignRole", id, 400, "ROLE_ASSIGNMENT_FAILED")
          /\ UNCHANGED <<users, sessions>>
       \/ /\ \E u \in users : u.id = id /\ role \notin u.roles
          /\ users' = {IF u.id = id THEN [u EXCEPT !.roles = @ \cup {role}] ELSE u :
                            u \in users}
          /\ Invalidate("assignRole", id)
    /\ UserFrame

\* DELETE /:id/roles/:roleId
UserController_removeRole(id, role) ==
    /\ \/ /\ \E u \in users : u.id = id /\ role \notin u.roles
          /\ last' = UserAnswer("removeRole", id, 404, "ROLE_NOT_FOUND")
          /\ UNCHANGED <<users, sessions>>
       \/ /\ \E u \in users : u.id = id /\ role \in u.roles
          /\ users' = {IF u.id = id THEN [u EXCEPT !.roles = @ \ {role}] ELSE u :
                            u \in users}
          /\ Invalidate("removeRole", id)
    /\ UserFrame

\* registration, login and logout next to the user-service handlers; the
\* user-service handlers run next to one auth-service request at a time
UserReqs == {1}

NextUsers ==
    \/ \E r \in UserReqs, e \in EmailInputs : RegisterStart(r, e)
    \/ \E r \in UserReqs, p \in RegisterPasswords : RegisterCreateUser(r, p)
    \/ \E r \in UserReqs : RegisterCreate(r)
    \/ \E r \in UserReqs : RegisterSession(r)
    \/ \E r \in UserReqs, e \in EmailInputs, p \in Passwords : LoginStart(r, e, p)
    \/ \E r \in UserReqs : LoginUpdateLastLogin(r)
    \/ \E r \in UserReqs : LoginCreate(r)
    \/ \E r \in UserReqs : LoginSession(r)
    \/ \E r \in UserReqs, h \in Headers, tok \in PresentableRefresh \cup {NoToken} :
            LogoutStart(r, h, tok)
    \/ \E r \in UserReqs : LogoutRevoke(r)
    \/ \E r \in UserReqs : LogoutDel(r)
    \/ \E id \in UserIds : UserController_getProfile(id)
    \/ \E id \in UserIds, active \in BOOLEAN : UserController_updateProfile(id, active)
    \/ \E id \in UserIds, active \in BOOLEAN : UserController_updateUser(id, active)
    \/ \E id \in UserIds : UserController_deleteUser(id)
    \/ \E id \in UserIds, role \in RoleNames : UserController_assignRole(id, role)
    \/ \E id \in UserIds, role \in RoleNames : UserController_removeRole(id, role)
    \/ \E id \in UserIds : SessionExpire(id)
    \/ Tick

SpecUsers == Init /\ [][NextUsers]_vars

\* the read paths that return a principal, next to registration, login and
\* the mutations their answers depend on; the clock stands still
NextReads ==
    \/ \E r \in UserReqs, e \in EmailInputs : RegisterStart(r, e)
    \/ \E r \in UserReqs, p \in RegisterPasswords : RegisterCreateUser(r, p)
    \/ \E r \in UserReqs : RegisterCreate(r)
    \/ \E r \in UserReqs : RegisterSession(r)
    \/ \E r \in UserReqs, e \in EmailInputs, p \in Passwords : LoginStart(r, e, p)
    \/ \E r \in UserReqs : LoginUpdateLastLogin(r)
    \/ \E r \in UserReqs : LoginCreate(r)
    \/ \E r \in UserReqs : LoginSession(r)
    \/ \E id \in UserIds : UserController_getProfile(id)
    \/ \E id \in UserIds : UserController_getUserById(id)
    \/ \E id \in UserIds : AuthController_verify(id)
    \/ \E id \in UserIds : AuthController_getCurrentUser(id)
    \/ \E id \in UserIds, active \in BOOLEAN : UserController_updateUser(id, active)
    \/ \E id \in UserIds, role \in RoleNames : UserController_assignRole(id, role)

SpecReads == Init /\ [][NextReads]_vars

-----------------------------------------------------------------------------
(* middleware/validation.js of the auth-service and of the user-service *)

PASSWORD_MIN_LENGTH == 8

\* a rule of a schema key on the value v of the body: .email(), .min(n),
\* .valid(Joi.ref('password')), .pattern(...); Joi.string() refuses ""
Joi_rule(rule, v, body) ==
    CASE rule = "email" -> v \in EmailInputs
      [] rule = "password" -> Len(v) >= PASSWORD_MIN_LENGTH /\ Len(v) <= 128
      [] rule = "ref:password" -> "password" \in DOMAIN body /\ v = body.password
      [] rule = "min2" -> Len(v) >= 2 /\ Len(v) <= 100
      [] rule = "min1" -> Len(v) >= 1 /\ Len(v) <= 100
      [] rule = "phone" -> v \in {"+15550100200"}
      [] rule = "string" -> v # ""
      [] rule = "credential" -> v # NoToken
      [] rule = "boolean" -> v \in BOOLEAN
      [] rule = "positive" -> v \in Nat \ {0}

Key(k, rule, required) == [key |-> k, rule |-> rule, required |-> required]

registerSchema ==
    <<Key("email", "email", TRUE), Key("password", "password", TRUE),
      Key("confirmPassword", "ref:password", TRUE), Key("firstName", "min2", TRUE),
      Key("lastName", "min2", TRUE), Key("phone", "phone", FALSE)>>

loginSchema == <<Key("email", "email", TRUE), Key("password", "string", TRUE)>>

refreshTokenSchema == <<Key("refreshToken", "credential", TRUE)>>

schemas_updateUser ==
    <<Key("first_name", "min1", FALSE), Key("last_name", "min1", FALSE),
      Key("phone", "phone", FALSE), Key("is_active", "boolean", FALSE),
      Key("is_verified", "boolean", FALSE)>>

schemas_assignRole == <<Key("roleId", "positive", TRUE)>>

\* schema.validate(body, {abortEarly}): the paths of error.details, the keys
\* in the order of the schema and then the object itself (path "") when it
\* has fewer than minKeys keys; with abortEarly the first of them only
Joi_validate(schema, minKeys, body, abortEarly) ==
    LET violated(k) == IF k.key \in DOMAIN body
                          THEN ~Joi_rule(k.rule, body[k.key], body)
                          ELSE k.required
        keys == SelectSeq(schema, violated)
        all == [i \in 1..Len(keys) |-> keys[i].key]
                    \o (IF Cardinality(DOMAIN body) < minKeys THEN <<"">> ELSE <<>>)
    IN IF abortEarly /\ all # <<>> THEN <<all[1]>> ELSE all

\* auth-service validate(schema): abortEarly: false
validate(schema, body) == Joi_validate(schema, 0, body, FALSE)

\* user-service validate(schema): the defaults of Joi, abortEarly: true
userService_validate(schema, minKeys, body) == Joi_validate(schema, minKeys, body, TRUE)

\* res.status(400).json(...) of a validation middleware
ValidationAnswer(kind, details) ==
    [IdleReq EXCEPT !.kind = kind, !.pc = "done", !.status = 400,
                    !.code = "VALIDATION_ERROR", !.details = details]

\* the middleware answers and next() is not called
Refuse(kind, details) ==
    /\ last' = ValidationAnswer(kind, details)
    /\ UNCHANGED <<now, probe, users, ledger, sessions, rq, delivered, rotated,
                   loggedOut, retired, started>>

RegisterBodies ==
    {[email |-> "Alice@Example.com", password |-> "Str0ng!Pass",
      confirmPassword |-> "Str0ng!Pass", firstName |-> "Alice", lastName |-> "Doe"],
     [email |-> "alice@example.com", password |-> "Str0ng!Pass",
      confirmPassword |-> "Str0ng!Pass", firstName |-> "Alice", lastName |-> "Doe",
      phone |-> "12"],
     [email |-> "alice.example.com", password |-> "short",
      confirmPassword |-> "short", firstName |-> "A", lastName |-> "Doe"],
     [password |-> "Str0ng!Pass", confirmPassword |-> "Admin@123",
      firstName |-> "Alice", lastName |-> "Doe"]}

LoginBodies ==
    {[email |-> e, password |-> p] : e \in EmailInputs, p \in Passwords}
        \cup {[email |-> "alice.example.com", password |-> ""],
              [password |-> "Str0ng!Pass"]}

RefreshBodies ==
    {[refreshToken |-> tok] : tok \in PresentableRefresh} \cup {[k \in {} |-> 0]}

UpdateUserBodies ==
    {[is_active |-> FALSE], [is_active |-> TRUE, first_name |-> "Alice"],
     [first_name |-> "", phone |-> "12", is_active |-> FALSE],
     [last_name |-> "", is_active |-> FALSE],
     [k \in {} |-> 0]}

\* the id column of the seeded roles
roleName(roleId) ==
    CASE roleId = 1 -> "super_admin" [] roleId = 2 -> "admin"
      [] roleId = 3 -> "manager" [] roleId = 4 -> "employee" [] roleId = 5 -> "viewer"

AssignRoleBodies == {[roleId |-> 2], [roleId |-> 3], [roleId |-> 0], [k \in {} |-> 0]}

\* POST /register: validate(registerSchema), then AuthController.register on
\* the validated value (the e-mail in lower case)
Route_register(r, body) ==
    LET details == validate(registerSchema, body)
    IN IF details # <<>> THEN Refuse("register", details)
       ELSE RegisterStart(r, toLowerCase(body.email))

\* POST /login: validate(loginSchema), then AuthController.login
Route_login(r, body) ==
    LET details == validate(loginSchema, body)
    IN IF details # <<>> THEN Refuse("login", details)
       ELSE LoginStart(r, toLowerCase(body.email), body.password)

\* POST /refresh: validate(refreshTokenSchema), then AuthController.refresh
Route_refresh(r, body) ==
    LET details == validate(refreshTokenSchema, body)
    IN IF details # <<>> THEN Refuse("refresh", details)
       ELSE RefreshStart(r, body.refreshToken)

\* PUT /:id: validateUpdateUser, then UserController.updateUser
Route_updateUser(id, body) ==
    LET details == userService_validate(schemas_updateUser, 1, body)
    IN IF details # <<>> THEN Refuse("updateUser", details)
       ELSE UserController_updateUser(id, body.is_active)

\* POST /:id/roles: validateAssignRole, then UserController.assignRole
Route_assignRole(id, body) ==
    LET details == userService_validate(schemas_assignRole, 0, body)
    IN IF details # <<>> THEN Refuse("assignRole", details)
       ELSE UserController_assignRole(id, roleName(body.roleId))

NextValidate ==
    \/ \E r \in UserReqs, body \in RegisterBodies : Route_register(r, body)
    \/ \E r \in UserReqs, p \in RegisterPasswords : RegisterCreateUser(r, p)
    \/ \E r \in UserReqs : RegisterCreate(r)
    \/ \E r \in UserReqs : RegisterSession(r)
    \/ \E r \in UserReqs, body \in LoginBodies : Route_login(r, body)
    \/ \E r \in UserReqs : LoginUpdateLastLogin(r)
    \/ \E r \in UserReqs : LoginCreate(r)
    \/ \E r \in UserReqs : LoginSession(r)
    \/ \E r \in UserReqs, body \in RefreshBodies : Route_refresh(r, body)
    \/ \E r \in UserReqs : RefreshIsValid(r)
    \/ \E r \in UserReqs : RefreshFindById(r)
    \/ \E r \in UserReqs : RefreshRevoke(r)
    \/ \E r \in UserReqs : RefreshCreate(r)
    \/ \E id \in UserIds, body \in UpdateUserBodies : Route_updateUser(id, body)
    \/ \E id \in UserIds, body \in AssignRoleBodies : Route_assignRole(id, body)

SpecValidate == Init /\ [][NextValidate]_vars

-----------------------------------------------------------------------------
(* api-gateway/src/middleware/auth.js and user-service middleware/auth.js *)

\* config/services.js: publicRoutes
publicRoutes ==
    {"/api/auth/register", "/api/auth/login", "/api/auth/refresh", "/health",
     "/api/health"}

\* req.path === route || req.path.startsWith(route): on the paths of the
\* model, which are no extensions of one another, membership
isPublicRoute(path) == path \in publicRoutes

\* the gateway's authenticate on request path and Authorization header h
gateway_authenticate(path, h, t) ==
    LET verdict == jwt_verify(h.token, "JWT_SECRET", t)
    IN IF isPublicRoute(path)
           THEN [outcome |-> "Public", status |-> 0, code |-> "",
                 user |-> Null, responses |-> 0, next |-> 1]
       ELSE IF h.scheme = ""
           THEN [outcome |-> "Rejected", status |-> 401, code |-> "NO_TOKEN",
                 user |-> Null, responses |-> 1, next |-> 0]
       ELSE IF h.scheme # "Bearer"
           THEN [outcome |-> "Rejected", status |-> 401,
                 code |-> "INVALID_TOKEN_FORMAT",
                 user |-> Null, responses |-> 1, next |-> 0]
       ELSE IF verdict = "ok"
           THEN [outcome |-> "Verified", status |-> 0, code |-> "",
                 user |-> [userId |-> h.token.userId, email |-> h.token.email,
                           roles |-> orEmpty(h.token.roles)],
                 responses |-> 0, next |-> 1]
       ELSE IF verdict = "TokenExpiredError"
           THEN [outcome |-> "Rejected", status |-> 401, code |-> "TOKEN_EXPIRED",
                 user |-> Null, responses |-> 1, next |-> 0]
       ELSE [outcome |-> "Rejected", status |-> 401, code |-> "INVALID_TOKEN",
             user |-> Null, responses |-> 1, next |-> 0]

\* the gateway's optionalAuth
gateway_optionalAuth(h, t) ==
    IF h.scheme # "Bearer"
        THEN [outcome |-> "Anonymous", status |-> 0, code |-> "",
              user |-> Null, responses |-> 0, next |-> 1]
    ELSE IF jwt_verify(h.token, "JWT_SECRET", t) = "ok"
        THEN [outcome |-> "Verified", status |-> 0, code |-> "",
              user |-> [userId |-> h.token.userId, email |-> h.token.email,
                        roles |-> orEmpty(h.token.roles)],
              responses |-> 0, next |-> 1]
    ELSE [outcome |-> "Anonymous", status |-> 0, code |-> "",
          user |-> Null, responses |-> 0, next |-> 1]

\* the gateway's authorize(...allowedRoles)
gateway_authorize(user, allowedRoles) ==
    IF user = Null THEN Reject(401, "UNAUTHORIZED")
    ELSE IF ~(\E role \in allowedRoles : role \in orEmpty(user.roles))
        THEN Reject(403, "FORBIDDEN")
    ELSE Proceed(user)

\* the user-service's authorize(...allowedRoles)
userService_authorize(user, allowedRoles) ==
    IF user = Null THEN Reject(401, "UNAUTHORIZED")
    ELSE IF ~(\E role \in allowedRoles : role \in orEmpty(user.roles))
        THEN Reject(403, "FORBIDDEN")
    ELSE Proceed(user)

\* createServiceProxy, onProxyReq: the X-User-Id, X-User-Email and
\* X-User-Roles headers of the proxied request. They are set from req.user
\* when the gateway attached one; otherwise those the client sent (x) go
\* through as they came
\* faulty variant: identity headers the client sent are left in place
createServiceProxy_clientFirst(user, x) ==
    IF user # Null /\ x = Null
        THEN [userId |-> user.userId, email |-> user.email, roles |-> user.roles]
        ELSE x

createServiceProxy(user, x) ==
    IF user # Null
        THEN [userId |-> user.userId, email |-> user.email, roles |-> user.roles]
        ELSE x

\* the user-service's authenticate: x holds the X-User-Id, X-User-Email and
\* X-User-Roles headers (Null when they are not sent), h is Authorization
userService_authenticate(x, h, t) ==
    IF x # Null
        THEN [outcome |-> "Verified", status |-> 0, code |-> "",
              user |-> [userId |-> x.userId, email |-> x.email, roles |-> x.roles],
              responses |-> 0, next |-> 1]
    ELSE IF h.scheme # "Bearer"
        THEN [outcome |-> "Rejected", status |-> 401, code |-> "UNAUTHORIZED",
              user |-> Null, responses |-> 1, next |-> 0]
    ELSE IF jwt_verify(h.token, "JWT_SECRET", t) = "ok"
        THEN [outcome |-> "Verified", status |-> 0, code |-> "",
              user |-> [userId |-> h.token.userId, email |-> h.token.email,
                        roles |-> orEmpty(h.token.roles)],
              responses |-> 0, next |-> 1]
    ELSE [outcome |-> "Rejected", status |-> 401, code |-> "INVALID_TOKEN",
          user |-> Null, responses |-> 1, next |-> 0]

-----------------------------------------------------------------------------
(* One call of a verification function on inputs drawn from bounded sets *)

Secrets == {"JWT_SECRET", "JWT_REFRESH_SECRET", "forged"}
RoleSets == {{}, {"viewer"}, {"admin"}, {"manager", "admin"}}

\* the permissions routes are gated on, and the role lists given to authorize
RoutePermissions == {"orders:update", "settings:update"}
AllowedLists == {{}, {"admin"}, {"viewer", "manager"}}
FirstMiddlewares == {"authenticate", "optionalAuth"}
Services == {"auth", "gateway", "userService"}
ProtectedPath == "/api/users/profile"

\* the credentials presented: either type, signed with either secret or with
\* none of them, expiring at any tick
ProbeTokens ==
    {[type |-> ty, key |-> k, userId |-> 2, email |-> AliceEmail,
      roles |-> rs, permissions |-> permissionsOf(rs),
      iat |-> 0, exp |-> x, tokenId |-> 0] :
        ty \in {"access", "refresh"}, k \in Secrets, rs \in RoleSets,
        x \in 1..MaxTime}

Schemes == {"Bearer", "Basic", ""}
Paths == {"/api/users/profile", "/api/auth/login"}

\* the claims snapshots tokens are issued for
ClaimsInputs ==
    {[userId |-> 2, email |-> AliceEmail, roles |-> rs,
      permissions |-> IF rs = NullArray THEN NullArray ELSE permissionsOf(rs)] :
        rs \in RoleSets \cup {NullArray}}

\* what the cache can hold for the subject: nothing (or every get fails), the
\* snapshot written at login, other contents
CacheStates ==
    {{},
     {[key |-> sessionKey(2),
       value |-> [userId |-> 2, email |-> AliceEmail,
                  roles |-> NullArray, permissions |-> NullArray]]},
     {[key |-> sessionKey(2),
       value |-> [userId |-> 2, email |-> AliceEmail,
                  roles |-> {"super_admin"},
                  permissions |-> permissionsOf({"super_admin"})]]}}

GatewayHeaders ==
    {Null, [userId |-> 2, email |-> AliceEmail, roles |-> {"manager"}]}

\* a request before any middleware has run: the credential it is about, its
\* Authorization header, and the claims a token is to be issued for
ProbeInput(tok, h, c) ==
    [pc |-> "input", token |-> tok, header |-> h, claims |-> c,
     path |-> "", x |-> Null,
     first |-> Null, permission |-> "", allowed |-> {},
     service |-> "", firstName |-> "",
     issued |-> NoToken, issuedAt |-> 0, at |-> 0, out |-> Null]

InitVerify ==
    /\ now = 0
    /\ users = SeedUsers
    /\ ledger = {}
    /\ sessions \in CacheStates
    /\ rq = [r \in Reqs |-> IdleReq]
    /\ last = IdleReq
    /\ delivered = {}
    /\ rotated = {}
    /\ loggedOut = {}
    /\ retired = {}
    /\ started = 0
    /\ \E tok \in ProbeTokens, sch \in Schemes, c \in ClaimsInputs :
        probe = ProbeInput(tok, [scheme |-> sch,
                                 token |-> IF sch = "" THEN NoToken ELSE tok], c)

ProbeFrame ==
    UNCHANGED <<now, users, ledger, sessions, rq, last, delivered, rotated,
                loggedOut, retired, started>>

\* a request with the header reaches a route behind the auth-service middleware
ApplyAuthenticate ==
    /\ probe.pc = "input"
    /\ probe' = [probe EXCEPT !.pc = "auth", !.at = now,
                              !.out = authenticate(probe.header, now, sessions)]
    /\ ProbeFrame

\* a request with the header reaches the gateway on some path
ApplyGateway(path) ==
    /\ probe.pc = "input"
    /\ probe' = [probe EXCEPT !.pc = "gateway", !.at = now, !.path = path,
                              !.out = gateway_authenticate(path, probe.header, now)]
    /\ ProbeFrame

\* a request with the header reaches the user-service
ApplyUserService(x) ==
    /\ probe.pc = "input"
    /\ probe' = [probe EXCEPT !.pc = "userService", !.at = now, !.x = x,
                              !.out = userService_authenticate(x, probe.header, now)]
    /\ ProbeFrame

\* a request with identity headers x of the client's own reaches the
\* user-service through the gateway, on a route that is not public
ApplyViaGateway(x) ==
    /\ probe.pc = "input"
    /\ LET g == gateway_authenticate(ProtectedPath, probe.header, now)
       IN probe' = [probe EXCEPT
                !.pc = "viaGateway", !.at = now, !.x = x, !.first = g,
                !.out = IF g.next = 0 THEN g
                        ELSE userService_authenticate(createServiceProxy(g.user, x),
                                                      probe.header, now)]
    /\ ProbeFrame

\* a request for path with the header and the identity headers x of its
\* sender goes through app.use(authenticate) and then the service proxy:
\* headers are the identity headers the downstream service receives
ApplyProxy(path, x) ==
    /\ probe.pc = "input"
    /\ LET g == gateway_authenticate(path, probe.header, now)
       IN probe' = [probe EXCEPT
                !.pc = "proxy", !.at = now, !.path = path, !.x = x, !.first = g,
                !.out = IF g.next = 0 THEN g
                        ELSE [outcome |-> "Forwarded", status |-> 0, code |-> "",
                              user |-> g.user, responses |-> 0, next |-> 1,
                              headers |-> createServiceProxy(g.user, x)]]
    /\ ProbeFrame

\* a request with the header reaches a route behind optionalAuth
ApplyOptionalAuth ==
    /\ probe.pc = "input"
    /\ probe' = [probe EXCEPT !.pc = "optionalAuth", !.at = now,
                              !.out = optionalAuth(probe.header, now)]
    /\ ProbeFrame

ApplyGatewayOptionalAuth ==
    /\ probe.pc = "input"
    /\ probe' = [probe EXCEPT !.pc = "gatewayOptional", !.at = now,
                              !.out = gateway_optionalAuth(probe.header, now)]
    /\ ProbeFrame

\* the auth-service middleware a route runs first
firstMiddleware(first, h, t, ss) ==
    IF first = "authenticate" THEN authenticate(h, t, ss) ELSE optionalAuth(h, t)

\* a request reaches a route of the form (first, requirePermission(permission))
ApplyRequirePermission(first, permission) ==
    /\ probe.pc = "input"
    /\ LET a == firstMiddleware(first, probe.header, now, sessions)
       IN probe' = [probe EXCEPT !.pc = "requirePermission", !.at = now,
                                 !.firstName = first,
                                 !.first = a, !.permission = permission,
                                 !.out = IF a.next = 0 THEN a
                                         ELSE requirePermission(a.user, permission)]
    /\ ProbeFrame

\* what the first middleware of a route of service svc does with the request
serviceFirst(svc, first, x, h, t, ss) ==
    IF svc = "auth" THEN firstMiddleware(first, h, t, ss)
    ELSE IF svc = "userService" THEN userService_authenticate(x, h, t)
    ELSE IF first = "authenticate" THEN gateway_authenticate(ProtectedPath, h, t)
    ELSE gateway_optionalAuth(h, t)

\* authorize(...allowedRoles) of service svc
serviceAuthorize(svc, user, allowedRoles) ==
    IF svc = "auth" THEN authorize(user, allowedRoles)
    ELSE IF svc = "userService" THEN userService_authorize(user, allowedRoles)
    ELSE gateway_authorize(user, allowedRoles)

\* the route (first, authorize(...allowedRoles)) of service svc
serviceChain(svc, first, x, h, allowedRoles, t, ss) ==
    LET a == serviceFirst(svc, first, x, h, t, ss)
    IN IF a.next = 0 THEN a ELSE serviceAuthorize(svc, a.user, allowedRoles)

\* a request reaches a route of the form (first, authorize(...allowedRoles))
\* of a service; the user-service has no optionalAuth
ApplyAuthorize(svc, first, allowedRoles) ==
    /\ probe.pc = "input"
    /\ svc = "userService" => first = "authenticate"
    /\ probe' = [probe EXCEPT
            !.pc = "authorize", !.at = now, !.service = svc, !.firstName = first,
            !.allowed = allowedRoles,
            !.first = serviceFirst(svc, first, Null, probe.header, now, sessions),
            !.out = serviceChain(svc, first, Null, probe.header, allowedRoles, now,
                                 sessions)]
    /\ ProbeFrame

ApplyVerifyRefresh ==
    /\ probe.pc = "input"
    /\ probe' = [probe EXCEPT !.pc = "verifyRefresh", !.at = now,
                              !.out = [ok |-> verifyRefreshToken(probe.token, now)]]
    /\ ProbeFrame

ApplyVerifyAccess ==
    /\ probe.pc = "input"
    /\ probe' = [probe EXCEPT !.pc = "verifyAccess", !.at = now,
                              !.out = [decoded |-> verifyAccessToken(probe.token, now)]]
    /\ ProbeFrame

ApplyGenerateAccessToken ==
    /\ probe.pc = "input"
    /\ probe' = [probe EXCEPT !.pc = "issued", !.issuedAt = now,
                              !.issued = generateAccessToken(probe.claims, now)]
    /\ ProbeFrame

ApplyVerifyIssued ==
    /\ probe.pc = "issued"
    /\ probe' = [probe EXCEPT !.pc = "roundtrip", !.at = now,
                              !.out = [decoded |-> verifyAccessToken(probe.issued, now)]]
    /\ ProbeFrame

NextVerify ==
    \/ ApplyAuthenticate
    \/ \E path \in Paths : ApplyGateway(path)
    \/ \E x \in GatewayHeaders : ApplyUserService(x)
    \/ \E x \in GatewayHeaders : ApplyViaGateway(x)
    \/ \E path \in Paths, x \in GatewayHeaders : ApplyProxy(path, x)
    \/ ApplyOptionalAuth
    \/ ApplyGatewayOptionalAuth
    \/ \E first \in FirstMiddlewares, permission \in RoutePermissions :
            ApplyRequirePermission(first, permission)
    \/ \E svc \in Services, first \in FirstMiddlewares, allowedRoles \in AllowedLists :
            ApplyAuthorize(svc, first, allowedRoles)
    \/ ApplyVerifyRefresh
    \/ ApplyVerifyAccess
    \/ ApplyGenerateAccessToken
    \/ ApplyVerifyIssued
    \/ Tick

SpecVerify == InitVerify /\ [][NextVerify]_vars

-----------------------------------------------------------------------------
(* Role administration next to issued access tokens. The clock stands still
   here: every token presented is inside its validity window. *)

\* the roles assigned and removed here
GrantableRoles == {"admin", "viewer"}

\* UserModel.getPermissions: the permission rows joined to the user's roles
UserModel_getPermissions(us, id) ==
    {rp.permission :
        rp \in {x \in role_permissions : \E u \in us : u.id = id /\ x.role \in u.roles}}

\* a client sends a request with an access token it was given
PresentAccess(h) ==
    /\ h.scheme = "Bearer"
    /\ probe' = ProbeInput(h.token, h, Null)
    /\ ProbeFrame

\* faulty variant: the roles are looked up in the store at request time
GatedByRoles_lookup(allowedRoles) ==
    /\ probe.pc = "input"
    /\ LET a == authenticate(probe.header, now, sessions)
           current == IF a.user = Null THEN Null
                      ELSE [a.user EXCEPT
                                !.roles = orEmpty(User_findById(users, a.user.userId).roles)]
       IN probe' = [probe EXCEPT
                !.pc = "authorize", !.at = now, !.service = "auth",
                !.firstName = "authenticate", !.allowed = allowedRoles,
                !.first = a,
                !.out = IF a.next = 0 THEN a ELSE authorize(current, allowedRoles)]
    /\ ProbeFrame

\* the request reaches an auth-service route (authenticate, authorize(...))
GatedByRoles(allowedRoles) == ApplyAuthorize("auth", "authenticate", allowedRoles)

\* the request reaches an auth-service route (authenticate, requirePermission)
GatedByPermission(permission) == ApplyRequirePermission("authenticate", permission)

NextRoles ==
    \/ \E r \in UserReqs, e \in EmailInputs : RegisterStart(r, e)
    \/ \E r \in UserReqs, p \in RegisterPasswords : RegisterCreateUser(r, p)
    \/ \E r \in UserReqs : RegisterCreate(r)
    \/ \E r \in UserReqs : RegisterSession(r)
    \/ \E r \in UserReqs, e \in EmailInputs, p \in Passwords : LoginStart(r, e, p)
    \/ \E r \in UserReqs : LoginUpdateLastLogin(r)
    \/ \E r \in UserReqs : LoginCreate(r)
    \/ \E r \in UserReqs : LoginSession(r)
    \/ \E id \in UserIds, role \in GrantableRoles : UserController_assignRole(id, role)
    \/ \E id \in UserIds, role \in GrantableRoles : UserController_removeRole(id, role)
    \/ \E h \in Headers : PresentAccess(h)
    \/ \E allowedRoles \in AllowedLists : GatedByRoles(allowedRoles)
    \/ \E permission \in RoutePermissions : GatedByPermission(permission)

SpecRoles == Init /\ [][NextRoles]_vars

-----------------------------------------------------------------------------
(* Properties *)

Records == {rq[r] : r \in Reqs} \cup {last}

\* the ledger holds a row for tok that is not revoked and not yet expired
Valid(tok) ==
    \E row \in ledger : row.token = tok /\ ~row.revoked /\ now < row.expires_at

\* tok carries the refresh signature and type and has not reached its expiry at t
WellSigned(tok, t) ==
    tok.type = "refresh" /\ tok.key = "JWT_REFRESH_SECRET" /\ t < tok.exp

Refusals == {"TOKEN_REVOKED", "INVALID_TOKEN", "REFRESH_FAILED"}

\* a refresh request is refused without minting or writing anything, and it
\* is INVALID_TOKEN only for a credential that does not verify (it has
\* reached its expiry, or it was not signed by this service)
Refused(req) ==
    /\ req.status # 200
    /\ req.code \in Refusals
    /\ req.tokens = NoTokens /\ req.minted = NoToken /\ req.writes = {}
    /\ req.code = "INVALID_TOKEN" => ~WellSigned(req.token, now)

\* C1 as stated: a refresh request that arrives after a refresh presenting the
\* same credential has completed successfully fails with TOKEN_REVOKED and
\* issues nothing.
C1_ReplayRevoked ==
    (last.kind = "refresh" /\ last.replay) =>
        (last.code = "TOKEN_REVOKED" /\ last.tokens = NoTokens /\ last.writes = {})

\* C1 amended: such a request never gets past the ledger check and is refused
\* without minting or recording anything; the refusal is TOKEN_REVOKED when
\* the ledger check answers, INVALID_TOKEN when the credential no longer
\* verifies, REFRESH_FAILED when the ledger query errors.
C1_ReplayNeverReissues ==
    /\ \A r \in Reqs : (rq[r].kind = "refresh" /\ rq[r].replay) => rq[r].pc = "isValid"
    /\ (last.kind = "refresh" /\ last.replay) => Refused(last)

C1_Witness ==
    last.kind = "refresh" /\ last.replay /\ last.code = "TOKEN_REVOKED"

\* C2: of the refresh requests in flight at once with the same valid
\* credential at most one succeeds: no refresh succeeds for a credential that
\* another refresh, overlapping with it, has already rotated.
C2_AtMostOneWinner ==
    ~(last.kind = "refresh" /\ last.status = 200 /\ last.second /\ ~last.replay)

\* C3: the ledger holds at most one valid refresh credential per login or
\* registration chain.
C3_OneValidPerChain ==
    \A row1 \in ledger, row2 \in ledger :
        (row1.chain = row2.chain /\ Valid(row1.token) /\ Valid(row2.token))
            => row1.token = row2.token

\* C4: for a refresh operation that has made the first of its two ledger
\* writes and not the second (it is suspended there for good, or it has ended
\* there with an error), the presented and the newly minted credential are
\* never both valid.
C4_NeverBothValid ==
    \A req \in Records :
        (req.kind = "refresh" /\ Cardinality(req.writes) = 1)
            => ~(Valid(req.token) /\ Valid(req.minted))

C4_Witness ==
    /\ last.kind = "refresh" /\ last.code = "REFRESH_FAILED"
    /\ last.writes = {"revoke"} /\ last.flipped
    /\ \E r \in Reqs : rq[r].kind = "refresh" /\ rq[r].pc = "create"

\* C5: a refresh that reports failure has left the presented credential as
\* valid as it found it.
C5_FailureKeepsPresented ==
    (last.kind = "refresh" /\ last.status # 200) => ~last.flipped

\* C6: a credential has at most one row in the ledger in every state, a
\* credential whose row was revoked or purged never has a row again that is
\* not revoked, so isValid is false for it from then on, and an isValid step
\* on a credential revoked or purged before it never lets the request through.
C6_RevokedForGood ==
    /\ [](/\ \A row1 \in ledger, row2 \in ledger :
                row1.token = row2.token => row1 = row2
          /\ \A tok \in retired :
                /\ \A row \in ledger : row.token = tok => row.revoked
                /\ ~Valid(tok))
    /\ [][\A r \in Reqs :
            (rq[r].kind = "refresh" /\ rq[r].pc = "isValid"
                /\ rq[r].token \in retired /\ rq'[r] # rq[r])
                    => rq'[r].pc = "idle"]_vars

C6_Witness ==
    /\ \E tok \in retired : \E row \in ledger : row.token = tok /\ row.revoked
    /\ \E tok \in retired : \A row \in ledger : row.token # tok
    /\ last.kind = "refresh" /\ last.code = "TOKEN_REVOKED"
    /\ last.token \in retired

\* C7: the isValid step lets a request through exactly when the ledger has a
\* row for the token with revoked = false and expires_at strictly after now.
C7_IsValidExact ==
    [][\A r \in Reqs :
        (rq[r].kind = "refresh" /\ rq[r].pc = "isValid" /\ rq'[r] # rq[r]) =>
            LET rowOk == \E row \in ledger :
                            /\ row.token = rq[r].token
                            /\ row.revoked = FALSE
                            /\ row.expires_at > now
            IN /\ rq'[r].pc = "findById" => rowOk
               /\ (rq'[r].pc = "idle" /\ last'.code # "REFRESH_FAILED")
                    => (~rowOk /\ last'.code = "TOKEN_REVOKED")]_vars

C7_Witness ==
    /\ last.kind = "refresh" /\ last.code = "TOKEN_REVOKED"
    /\ \E row \in ledger :
        row.token = last.token /\ ~row.revoked /\ row.expires_at = now

\* C8: a refresh request whose credential fails verification is answered 401
\* INVALID_TOKEN on arrival, one whose credential isValid rejects is answered
\* 401 TOKEN_REVOKED; neither carries tokens, and the ledger is as before.
C8_RejectedLeavesLedger ==
    [][/\ (started' # started /\ rq' = rq /\ last'.kind = "refresh") =>
            /\ ~WellSigned(last'.token, now)
            /\ last'.status = 401 /\ last'.code = "INVALID_TOKEN"
            /\ last'.tokens = NoTokens /\ last'.writes = {}
            /\ ledger' = ledger
       /\ \A r \in Reqs :
            /\ (started' # started /\ rq'[r] # rq[r] /\ rq'[r].kind = "refresh")
                    => (WellSigned(rq'[r].token, now) /\ ledger' = ledger)
            /\ (rq[r].kind = "refresh" /\ rq[r].pc = "isValid" /\ rq'[r] # rq[r]
                    /\ ~Valid(rq[r].token) /\ last'.code # "REFRESH_FAILED") =>
                /\ rq'[r].pc = "idle"
                /\ last'.status = 401 /\ last'.code = "TOKEN_REVOKED"
                /\ last'.tokens = NoTokens /\ last'.writes = {}
                /\ ledger' = ledger]_vars

C8_Witness ==
    /\ last.kind = "refresh" /\ last.code = "INVALID_TOKEN"
    /\ last.token = ForgedRefresh
    /\ ledger # {}

\* C9: a refresh request whose credential is valid but whose principal is
\* missing or inactive when looked up is answered 401 UNAUTHORIZED without
\* tokens, and the ledger is as before.
C9_InactiveRefused ==
    [][\A r \in Reqs :
        (rq[r].kind = "refresh" /\ rq[r].pc = "findById" /\ rq'[r] # rq[r]
            /\ ~(\E u \in users : u.id = rq[r].token.userId /\ u.is_active)
            /\ last'.code # "REFRESH_FAILED") =>
                /\ rq'[r].pc = "idle"
                /\ last'.status = 401 /\ last'.code = "UNAUTHORIZED"
                /\ last'.tokens = NoTokens /\ last'.minted = NoToken
                /\ last'.writes = {}
                /\ ledger' = ledger]_vars

C9_Witness ==
    /\ last.kind = "refresh" /\ last.code = "UNAUTHORIZED"
    /\ Valid(last.token)
    /\ \E u \in users : u.id = last.token.userId /\ ~u.is_active

\* C10 as stated: a refresh request that arrives after a logout presenting the
\* same credential has completed fails with TOKEN_REVOKED.
C10_AfterLogoutRevoked ==
    (last.kind = "refresh" /\ last.afterLogout) => last.code = "TOKEN_REVOKED"

\* C10 amended: such a request never gets past the ledger check and is
\* refused without minting or recording anything; the refusal is TOKEN_REVOKED
\* when the ledger check answers, INVALID_TOKEN when the credential does
\* not verify, REFRESH_FAILED when the ledger query errors.
C10_AfterLogoutNeverReissues ==
    /\ \A r \in Reqs :
        (rq[r].kind = "refresh" /\ rq[r].afterLogout) => rq[r].pc = "isValid"
    /\ (last.kind = "refresh" /\ last.afterLogout) => Refused(last)

C10_Witness ==
    last.kind = "refresh" /\ last.afterLogout /\ last.code = "TOKEN_REVOKED"

\* C11: an access credential that reached a client is accepted by
\* verifyAccessToken and by the authenticate middleware exactly until its own
\* expiry, whatever the ledger and the cache hold: no logout, revocation,
\* rotation or session invalidation changes that.
C11_AccessUntilExpiry ==
    \A p \in delivered : \A ss \in {sessions, {}} :
        /\ (verifyAccessToken(p.accessToken, now) # Null) <=> (now < p.accessToken.exp)
        /\ (authenticate([scheme |-> "Bearer", token |-> p.accessToken], now, ss).outcome
                = "Verified") <=> (now < p.accessToken.exp)

C11_Witness ==
    /\ loggedOut # {}
    /\ \E r \in Reqs :
        /\ rq[r].kind = "logout" /\ rq[r].pc # "idle"
        /\ \E row \in ledger : row.user_id = rq[r].user.id
        /\ \A row \in ledger : row.user_id = rq[r].user.id => row.revoked
        /\ \A e \in sessions : e.key # <<"session", rq[r].user.id>>

\* C12: the revoke step of logout changes the revoked flag of the presented
\* entry only and no other row; revokeAllForUser sets revoked on every entry
\* of the principal and leaves the rows of every other principal as they were.
C12_RevocationFrames ==
    [][/\ \A r \in Reqs :
            (LogoutRevoke(r) /\ rq'[r].pc = "del") =>
                /\ \A row \in ledger : row.token # rq[r].token => row \in ledger'
                /\ \A row \in ledger' : row.token # rq[r].token => row \in ledger
                /\ \A row \in ledger : row.token = rq[r].token =>
                        [row EXCEPT !.revoked = TRUE] \in ledger'
                /\ \A row \in ledger' : row.token = rq[r].token => row.revoked
       /\ \A id \in UserIds :
            RevokeAllForUser(id) =>
                /\ \A row \in ledger : row.user_id # id => row \in ledger'
                /\ \A row \in ledger' : row.user_id # id => row \in ledger
                /\ \A row \in ledger : row.user_id = id =>
                        [row EXCEPT !.revoked = TRUE] \in ledger'
                /\ \A row \in ledger' : row.user_id = id => row.revoked]_vars

C12_Witness ==
    /\ last.kind = "logout" /\ last.status = 200
    /\ last.writes = {"revoke"} /\ last.flipped
    /\ \E row \in ledger :
        /\ row.user_id = last.token.userId
        /\ row.token # last.token
        /\ ~row.revoked

\* C13: revoke is idempotent: a revoke of a token whose entry is revoked
\* already goes through and leaves the whole ledger as it was, and after any
\* revoke the entry is revoked.
C13_RevokeIdempotent ==
    /\ [](\A tok \in KnownRefresh \ {NoToken} :
            LET once == RefreshToken_revoke(ledger, tok)
            IN /\ RefreshToken_revoke(once, tok) = once
               /\ \A row \in once : row.token = tok => row.revoked)
    /\ [][\A r \in Reqs :
            (rq[r].pc = "revoke" /\ rq'[r].pc \in {"del", "create"}) =>
                /\ \A row \in ledger' : row.token = rq[r].token => row.revoked
                /\ (\A row \in ledger : row.token = rq[r].token => row.revoked)
                        => ledger' = ledger]_vars

C13_Witness ==
    \E r \in Reqs :
        /\ rq[r].kind = "logout" /\ rq[r].pc = "del"
        /\ rq[r].writes = {"revoke"} /\ ~rq[r].flipped
        /\ rq[r].token \in loggedOut
        /\ \E row \in ledger : row.token = rq[r].token /\ row.revoked

\* C14: the sweep of expired rows changes neither isValid nor the answer of
\* a refresh request for any token: both are the same right before and right
\* after deleteExpired.
C14_SweepInvisible ==
    [][DeleteExpired =>
        \A tok \in KnownRefresh \cup retired \cup {ForgedRefresh} :
            /\ (\E row \in ledger' :
                    row.token = tok /\ ~row.revoked /\ row.expires_at > now)
                <=> (\E row \in ledger :
                    row.token = tok /\ ~row.revoked /\ row.expires_at > now)
            /\ refreshOutcome(ledger', users', tok, now')
                = refreshOutcome(ledger, users, tok, now)]_vars

C14_Witness ==
    /\ \E tok \in retired : \A row \in ledger : row.token # tok
    /\ \E row \in ledger : ~row.revoked /\ row.expires_at > now

\* the call looked at presented a credential: a Bearer header, on a route
\* that is not public, without the gateway's X-User headers
Presented ==
    /\ probe.pc \in {"auth", "gateway", "userService"}
    /\ probe.header.scheme = "Bearer"
    /\ probe.pc = "gateway" => probe.path \notin publicRoutes
    /\ probe.pc = "userService" => probe.x = Null

\* the presented credential has the signature of the access secret, the
\* access type and has not reached its expiry when the call is made
GoodAccess ==
    /\ probe.header.scheme = "Bearer"
    /\ probe.token.key = "JWT_SECRET"
    /\ probe.token.type = "access"
    /\ probe.at < probe.token.exp

\* C15: a credential of type refresh is rejected by verifyAccessToken and by
\* the authenticate middleware of the auth-service, the user-service and the
\* gateway, and one of type access is rejected by verifyRefreshToken,
\* whichever secret signed it.
C15_NoCrossUse ==
    /\ (Presented /\ probe.token.type = "refresh") => probe.out.outcome = "Rejected"
    /\ (probe.pc = "verifyAccess" /\ probe.token.type = "refresh")
            => probe.out.decoded = Null
    /\ (probe.pc = "verifyRefresh" /\ probe.token.type = "access") => ~probe.out.ok

\* C16: the auth-service middleware tells the causes of a failed verification
\* apart: TOKEN_EXPIRED for a well-signed access credential past its expiry,
\* INVALID_TOKEN for a bad signature or a wrong type, and it accepts exactly
\* when signature, type and expiry are all in order.
C16_CauseSurfaced ==
    (probe.pc = "auth" /\ probe.header.scheme = "Bearer") =>
        /\ (probe.out.outcome = "Verified") <=> GoodAccess
        /\ (probe.token.key = "JWT_SECRET" /\ probe.token.type = "access"
                /\ probe.at >= probe.token.exp)
            => (probe.out.status = 401 /\ probe.out.code = "TOKEN_EXPIRED")
        /\ (probe.token.key # "JWT_SECRET" \/ probe.token.type # "access")
            => (probe.out.status = 401 /\ probe.out.code = "INVALID_TOKEN")

\* C17: verifyAccessToken of a token generateAccessToken has issued for a
\* claims snapshot returns the subject id, the roles and the permissions of
\* the snapshot (none, where the snapshot has none) at every time before the
\* expiry, and null from the expiry on.
C17_RoundTrip ==
    probe.pc = "roundtrip" =>
        LET d == probe.out.decoded
            c == probe.claims
        IN IF probe.at < probe.issuedAt + AccessTTL
              THEN /\ d # Null
                   /\ d.userId = c.userId
                   /\ d.roles = (IF c.roles = {"null"} THEN {} ELSE c.roles)
                   /\ d.permissions
                        = (IF c.permissions = {"null"} THEN {} ELSE c.permissions)
              ELSE d = Null

C17_Witness ==
    /\ probe.pc = "roundtrip"
    /\ probe.out.decoded # Null
    /\ probe.claims.roles = {"admin"}
    /\ probe.out.decoded.permissions = {"users:read", "orders:update"}

\* C18: the decision of the authenticate middleware and the identity, roles
\* and permissions it attaches are those the credential alone determines: the
\* same with the session entry present, absent, of other contents, or with
\* every cache read failing.
C18_CacheAdvisory ==
    probe.pc = "auth" =>
        /\ \A ss \in CacheStates :
                authenticate(probe.header, probe.at, ss) = probe.out
        /\ (probe.out.outcome = "Verified") <=> GoodAccess
        /\ probe.out.outcome = "Verified" =>
                probe.out.user = [userId |-> probe.token.userId,
                                  email |-> probe.token.email,
                                  roles |-> probe.token.roles,
                                  permissions |-> probe.token.permissions]

C18_Witness ==
    /\ probe.pc = "auth"
    /\ probe.out.outcome = "Verified"
    /\ sessions = {}

Mutations == {"updateProfile", "updateUser", "deleteUser", "assignRole", "removeRole"}

\* the cache holds a session entry of principal id whose role snapshot is
\* no longer the principal's role set
StaleSession(id) ==
    \E e \in sessions, u \in users :
        /\ e.key = <<"session", id>>
        /\ u.id = id
        /\ e.value.roles # array_agg(u.roles)

\* C19: when a logout of a principal has completed, the cache holds no
\* session:<id> entry of that principal, and when a profile or role mutation
\* (updateProfile, updateUser, deleteUser, assignRole, removeRole) of a
\* principal has completed, the cache holds no session:<id> entry with the
\* snapshot from before the mutation.
C19_SessionInvalidated ==
    /\ (last.kind = "logout" /\ last.status = 200) =>
            \A e \in sessions : e.key # <<"session", last.user.id>>
    /\ (last.kind \in Mutations /\ last.status = 200) =>
            ~StaleSession(last.user.id)

\* C21: a request without an Authorization header, or with one that is not
\* of the form Bearer <token>, is answered 401 NO_TOKEN by the authenticate
\* middleware of the auth-service, of the gateway (on a route that is not
\* public) and of the user-service (without identity headers).
C21_NoTokenEverywhere ==
    (/\ probe.pc \in {"auth", "gateway", "userService"}
     /\ probe.header.scheme # "Bearer"
     /\ probe.pc = "gateway" => probe.path \notin publicRoutes
     /\ probe.pc = "userService" => probe.x = Null)
        => /\ probe.out.outcome = "Rejected"
           /\ probe.out.status = 401
           /\ probe.out.code = "NO_TOKEN"

\* C22: optionalAuth, in the auth-service and in the gateway, sends no
\* response and calls the downstream handler once for every request, and it
\* attaches a principal only for a credential that is well signed, of the
\* access type and unexpired.
C22_OptionalNeverRejects ==
    probe.pc \in {"optionalAuth", "gatewayOptional"} =>
        /\ probe.out.responses = 0
        /\ probe.out.next = 1
        /\ probe.out.user # Null => GoodAccess

\* C23: behind a middleware that attached a principal, requirePermission
\* calls the downstream handler exactly when the principal's permission set
\* holds the required string, and otherwise answers 403
\* INSUFFICIENT_PERMISSIONS without calling it; a principal whose token was
\* issued for the viewer role alone is refused on orders:update, one whose
\* token was issued for admin is let through.
C23_PermissionGate ==
    (probe.pc = "requirePermission" /\ probe.first.user # Null) =>
        /\ IF probe.permission \in probe.first.user.permissions
              THEN /\ probe.out.outcome = "Allowed"
                   /\ probe.out.next = 1 /\ probe.out.responses = 0
              ELSE /\ probe.out.status = 403
                   /\ probe.out.code = "INSUFFICIENT_PERMISSIONS"
                   /\ probe.out.next = 0 /\ probe.out.responses = 1
        /\ probe.first.user.permissions = probe.token.permissions
        /\ (probe.token.roles = {"viewer"} /\ probe.permission = "orders:update")
                => probe.out.status = 403
        /\ (probe.token.roles = {"admin"} /\ probe.permission = "orders:update")
                => probe.out.outcome = "Allowed"

C23_Witness ==
    /\ probe.pc = "requirePermission"
    /\ probe.first.user # Null
    /\ probe.token.roles = {"admin"}
    /\ probe.permission = "settings:update"
    /\ probe.out.code = "INSUFFICIENT_PERMISSIONS"

\* C24: behind a middleware that attached a principal, authorize of each
\* service calls the downstream handler exactly when the principal holds at
\* least one of the allowed roles, and answers 403 FORBIDDEN otherwise (so
\* always for an empty list or an empty role set); with no principal
\* attached it answers 401.
C24_AnyOf ==
    (probe.pc = "authorize" /\ probe.first.next = 1) =>
        IF probe.first.user = Null
            THEN /\ probe.out.status = 401
                 /\ probe.out.next = 0 /\ probe.out.responses = 1
        ELSE IF probe.first.user.roles \cap probe.allowed # {}
            THEN /\ probe.out.outcome = "Allowed"
                 /\ probe.out.next = 1 /\ probe.out.responses = 0
        ELSE /\ probe.out.status = 403
             /\ probe.out.code = "FORBIDDEN"
             /\ probe.out.next = 0 /\ probe.out.responses = 1

C24_Witness ==
    /\ probe.pc = "authorize"
    /\ probe.service = "auth"
    /\ probe.first.user # Null
    /\ probe.first.user.roles = {"manager", "admin"}
    /\ probe.allowed = {"viewer", "manager"}
    /\ probe.out.outcome = "Allowed"

\* C25: the answer a service's authenticate + authorize chain gives to a
\* request is the answer the chain of each of the three services gives to
\* the same Authorization header and the same allowed roles: the same
\* decision, and on acceptance the same principal id and role set.
C25_SameAcrossServices ==
    (probe.pc = "authorize" /\ probe.firstName = "authenticate") =>
        \A svc \in Services :
            LET other == serviceChain(svc, "authenticate", Null, probe.header,
                                      probe.allowed, probe.at, sessions)
            IN /\ other.next = probe.out.next
               /\ other.next = 1 =>
                    /\ other.user.userId = probe.out.user.userId
                    /\ other.user.roles = probe.out.user.roles

\* the strings some role of rs grants: resource:action of a permission row
\* that role_permissions gives to a role in rs
GrantedBy(rs) ==
    {str \in {permissionString(p) : p \in permissions} :
        \E role \in rs, p \in permissions :
            /\ [role |-> role, permission |-> p] \in role_permissions
            /\ str = permissionString(p)}

\* C26: the permission set resolved for a principal is the set of strings
\* its assigned roles grant, no more and no less, and empty for a principal
\* without roles: in the user object findById returns for each principal,
\* in the rows of getPermissions, in the user object a login read, and in
\* every access token delivered.
C26_UnionOfRoles ==
    /\ \A u \in users :
        /\ orEmpty(User_findById(users, u.id).permissions) = GrantedBy(u.roles)
        /\ {permissionString(p) : p \in UserModel_getPermissions(users, u.id)}
                = GrantedBy(u.roles)
    /\ \A r \in Reqs :
            (rq[r].kind = "login" /\ rq[r].pc # "idle") =>
                orEmpty(rq[r].user.permissions) = GrantedBy(orEmpty(rq[r].user.roles))
    /\ \A pair \in delivered :
            pair.accessToken.permissions = GrantedBy(pair.accessToken.roles)

C26_Witness ==
    \E pair \in delivered :
        /\ pair.accessToken.roles = {"admin", "viewer"}
        /\ pair.accessToken.permissions = {"users:read", "orders:update"}

\* C27: a request bearing an access token that authenticate accepted is
\* let through by authorize exactly when the roles in the token meet the
\* allowed roles, and by requirePermission exactly when the permissions in
\* the token hold the required one, whatever roles the principal has in the
\* store at the time of the request.
C27_TokenSnapshotDecides ==
    (probe.pc \in {"authorize", "requirePermission"} /\ probe.service \in {"", "auth"}
         /\ probe.first.user # Null) =>
        /\ probe.pc = "authorize" =>
            (probe.out.next = 1 <=> probe.token.roles \cap probe.allowed # {})
        /\ probe.pc = "requirePermission" =>
            (probe.out.next = 1 <=> probe.permission \in probe.token.permissions)

\* a token issued for admin opens a route for admin after the role was removed
C27_Witness ==
    /\ probe.pc = "authorize"
    /\ probe.token.roles = {"admin"}
    /\ probe.allowed = {"admin"}
    /\ probe.out.next = 1
    /\ \E u \in users : u.id = probe.token.userId /\ u.roles = {}

\* C28: the user-service treats a request as authenticated only on a bearer
\* credential that verifies or on identity headers the gateway has set: one
\* that arrives directly with identity headers of the sender's own and
\* without a bearer credential that verifies is rejected, and one that came
\* through the gateway carries the identity of the credential the gateway
\* verified.
C28_HeadersOnlyFromGateway ==
    /\ (/\ probe.pc = "userService"
        /\ probe.x # Null
        /\ ~(/\ probe.header.scheme = "Bearer"
             /\ jwt_verify(probe.header.token, "JWT_SECRET", probe.at) = "ok"))
            => probe.out.outcome = "Rejected"
    /\ (probe.pc = "viaGateway" /\ probe.out.outcome = "Verified") =>
            /\ probe.first.outcome = "Verified"
            /\ probe.out.user.userId = probe.token.userId
            /\ probe.out.user.roles = probe.token.roles

\* C29: whatever the interleaving of register requests, no two principals
\* in the store have the same email.
C29_OnePrincipalPerEmail ==
    \A u1, u2 \in users : u1.email = u2.email => u1.id = u2.id

\* a principal exists while another register request for its email, which
\* passed emailExists before, is about to create
C29_Witness ==
    \E r \in Reqs, u \in users :
        /\ rq[r].kind = "register" /\ rq[r].pc = "createUser"
        /\ u.email = toLowerCase(rq[r].user.email)

\* C30: a register request that attempts its create while its email belongs
\* to a principal is answered 409 EMAIL_EXISTS without tokens, and creates
\* no principal and no refresh entry.
C30_ConflictOnCreate ==
    [][\A r \in Reqs :
        (/\ rq[r].kind = "register" /\ rq[r].pc = "createUser"
         /\ User_emailExists(users, rq[r].user.email)
         /\ rq'[r] # rq[r])
            => /\ last'.kind = "register"
               /\ last'.status = 409 /\ last'.code = "EMAIL_EXISTS"
               /\ last'.tokens = NoTokens
               /\ users' = users /\ ledger' = ledger]_vars

\* the e-mail e and password p are those a principal was registered with
Registered(e, p) ==
    \E u \in users : u.email = toLowerCase(e) /\ u.password_hash = bcryptHash(p)

\* C31 as stated: a register request for an e-mail no principal has is
\* answered 201, and a login with the e-mail and password of a registered
\* principal is answered 200.
C31_RegisterThenLogin ==
    [][/\ \A r \in Reqs, e \in EmailInputs :
            (RegisterStart(r, e) /\ ~User_emailExists(users, e))
                => rq'[r].pc = "createUser"
       /\ (last' # last /\ last'.kind = "register" /\ last'.status # 409)
                => last'.status = 201
       /\ \A r \in Reqs, e \in EmailInputs, p \in Passwords :
            (LoginStart(r, e, p) /\ Registered(e, p))
                => rq'[r].pc = "updateLastLogin"
       /\ (last' # last /\ last'.kind = "login" /\ last'.status \notin {401, 403})
                => last'.status = 200]_vars

\* C31 amended: a register request for an e-mail no principal has is never
\* answered 409; it ends 201 with a token pair whose refresh credential was
\* inserted into the ledger, or 500 without tokens. A login with the e-mail
\* and password of a registered principal that is active is never answered
\* 401 or 403; it ends 200 with a token pair not handed out before whose
\* refresh credential was inserted into the ledger, or 500 without tokens.
C31_RegisterThenLoginUnlessFault ==
    [][/\ \A r \in Reqs, e \in EmailInputs :
            (RegisterStart(r, e) /\ ~User_emailExists(users, e))
                => \/ rq'[r].pc = "createUser"
                   \/ last'.status = 500 /\ last'.tokens = NoTokens
       /\ (last' # last /\ last'.kind = "register" /\ last'.status # 409)
                => \/ /\ last'.status = 201
                      /\ last'.tokens # NoTokens
                      /\ "create" \in last'.writes
                      /\ last'.tokens \notin delivered
                   \/ last'.status = 500 /\ last'.tokens = NoTokens
       /\ \A r \in Reqs, e \in EmailInputs, p \in Passwords :
            (/\ LoginStart(r, e, p)
             /\ \E u \in users : /\ u.email = toLowerCase(e)
                                 /\ u.password_hash = bcryptHash(p)
                                 /\ u.is_active)
                => \/ rq'[r].pc = "updateLastLogin"
                   \/ last'.status = 500 /\ last'.tokens = NoTokens
       /\ (last' # last /\ last'.kind = "login" /\ last'.status \notin {401, 403})
                => \/ /\ last'.status = 200
                      /\ last'.tokens # NoTokens
                      /\ "create" \in last'.writes
                      /\ last'.tokens \notin delivered
                   \/ last'.status = 500 /\ last'.tokens = NoTokens]_vars

\* a login of the registered principal has returned a second token pair
C31_Witness ==
    /\ last.kind = "login" /\ last.status = 200
    /\ \E pair \in delivered :
        /\ pair # last.tokens
        /\ pair.refreshToken.userId = last.tokens.refreshToken.userId

\* the responses that are out: the answered slots and the last response
Responses == {rq[r] : r \in {q \in Reqs : rq[q].pc = "done"}} \cup {last}

\* C32: no response of register, login, verify, me, getProfile or
\* getUserById carries a principal object with a password_hash, and no
\* user:<id> entry of the cache holds one.
C32_NoSecretHash ==
    /\ \A res \in Responses : "password_hash" \notin DOMAIN res.user
    /\ \A e \in sessions : "password_hash" \notin DOMAIN e.value

\* a login has answered 200 with the principal it read by e-mail, and the
\* cache holds a user:<id> entry
C32_Witness ==
    /\ last.kind = "login" /\ last.status = 200
    /\ last.user.id \in UserIds
    /\ last.user.email = AliceEmail
    /\ \E e \in sessions : e.key = userKey(last.user.id)

\* every key of the schema that the body violates, and the object itself
\* when it has too few keys
Violated(schema, minKeys, body) ==
    LET all == Joi_validate(schema, minKeys, body, FALSE)
    IN {all[i] : i \in 1..Len(all)}

\* the request is refused at the boundary: 400 VALIDATION_ERROR that lists
\* the fields in the set violated, no controller run, no state changed
RefusedListing(violatedFields) ==
    /\ last'.status = 400 /\ last'.code = "VALIDATION_ERROR"
    /\ {last'.details[i] : i \in 1..Len(last'.details)} = violatedFields
    /\ UNCHANGED <<users, ledger, sessions, rq, started, delivered>>

\* C33: a request whose body fails the schema of its route is answered 400
\* VALIDATION_ERROR with every violated field listed, its controller is not
\* run, and the principal store, the ledger and the cache stay as they were.
C33_ValidationAtBoundary ==
    [][/\ \A r \in UserReqs, body \in RegisterBodies :
            (Route_register(r, body) /\ Violated(registerSchema, 0, body) # {})
                => RefusedListing(Violated(registerSchema, 0, body))
       /\ \A r \in UserReqs, body \in LoginBodies :
            (Route_login(r, body) /\ Violated(loginSchema, 0, body) # {})
                => RefusedListing(Violated(loginSchema, 0, body))
       /\ \A r \in UserReqs, body \in RefreshBodies :
            (Route_refresh(r, body) /\ Violated(refreshTokenSchema, 0, body) # {})
                => RefusedListing(Violated(refreshTokenSchema, 0, body))
       /\ \A id \in UserIds, body \in UpdateUserBodies :
            (Route_updateUser(id, body) /\ Violated(schemas_updateUser, 1, body) # {})
                => RefusedListing(Violated(schemas_updateUser, 1, body))
       /\ \A id \in UserIds, body \in AssignRoleBodies :
            (Route_assignRole(id, body) /\ Violated(schemas_assignRole, 0, body) # {})
                => RefusedListing(Violated(schemas_assignRole, 0, body))]_vars

\* the principal of e-mail e exists, is active and p verifies against its hash
MayLogin(e, p) ==
    \E u \in users : /\ u.email = toLowerCase(e)
                     /\ u.is_active
                     /\ verifyPassword(p, u.password_hash)

\* C34: a login goes on to mint a token pair only when the principal exists,
\* is active and the password verifies; a login of an unknown e-mail, a
\* disabled account or a wrong password is answered without tokens and
\* without a write to the ledger, the session cache or last_login; only a
\* login answered 200 carries tokens.
C34_LoginGate ==
    [][/\ \A r \in Reqs, e \in EmailInputs, p \in Passwords :
            (LoginStart(r, e, p) /\ ~MayLogin(e, p))
                => /\ last'.kind = "login"
                   /\ last'.status \in {401, 403, 500}
                   /\ last'.tokens = NoTokens /\ last'.minted = NoToken
                   /\ last'.writes = {}
                   /\ UNCHANGED <<rq, users, ledger, sessions, delivered>>
       /\ (last' # last /\ last'.kind = "login" /\ last'.status \in {401, 403})
                => /\ last'.tokens = NoTokens /\ last'.writes = {}
                   /\ UNCHANGED <<users, ledger, sessions, delivered>>
       /\ (last' # last /\ last'.kind = "login" /\ last'.tokens # NoTokens)
                => last'.status = 200]_vars

\* logins have been refused for a wrong password and for a disabled account
\* (last), and a login has been answered with tokens before
C34_Witness ==
    /\ last.kind = "login" /\ last.code = "ACCOUNT_DISABLED"
    /\ \E pair \in delivered, u \in users :
            pair.refreshToken.userId = u.id /\ ~u.is_active

\* the principal id is inactive: its deactivation has committed
Inactive(id) == \E u \in users : u.id = id /\ ~u.is_active

\* C35: while a principal is inactive, no step of a login or of a refresh
\* for it records a new refresh entry or answers with a new token pair, a
\* refresh that read the principal as active before the deactivation
\* included.
C35_NoIssueWhileInactive ==
    [][\A r \in Reqs :
        /\ ((LoginCreate(r) \/ RefreshCreate(r)) /\ Inactive(rq[r].user.id))
                => /\ ledger' = ledger
                   /\ last'.tokens = NoTokens
        /\ (LoginSession(r) /\ Inactive(rq[r].user.id))
                => last'.tokens = NoTokens]_vars

\* C36: the access token a refresh mints carries the roles and permissions
\* the principal has in the store when the refresh reads it, and the pair a
\* successful refresh returns is the pair it minted then.
C36_RefreshResolvesAnew ==
    [][\A r \in UserReqs :
        /\ (RefreshFindById(r) /\ rq'[r].pc = "revoke")
                => \E u \in users :
                    /\ u.id = rq[r].token.userId
                    /\ rq'[r].tokens.accessToken.userId = u.id
                    /\ rq'[r].tokens.accessToken.roles = u.roles
                    /\ rq'[r].tokens.accessToken.permissions = GrantedBy(u.roles)
        /\ (RefreshCreate(r) /\ last'.status = 200)
                => last'.tokens = rq[r].tokens]_vars

\* a refresh has returned an access token with permissions that the access
\* token of the pair it replaced did not have
C36_Witness ==
    /\ last.kind = "refresh" /\ last.status = 200
    /\ last.tokens.accessToken.permissions # {}
    /\ \E p \in delivered :
        /\ p.refreshToken = last.token
        /\ p.accessToken.permissions = {}
        /\ p.accessToken.roles # last.tokens.accessToken.roles

\* the ledger l has a row of the credential tok
Recorded(l, tok) == RowsOf(l, tok) # {}

\* C37: register and login go on to their response only with the row of the
\* minted refresh credential in the ledger and return that pair; a
\* successful refresh returns the pair whose row it has just inserted; a
\* handler whose insert failed answers 500 without tokens; and a refresh
\* that finds no row of a well-signed credential answers without tokens and
\* ends there.
C37_LedgerBeforeResponse ==
    [][\A r \in Reqs :
        /\ ((RegisterCreate(r) \/ LoginCreate(r)) /\ rq'[r].pc = "session")
                => Recorded(ledger', rq[r].tokens.refreshToken)
        /\ (RegisterSession(r) \/ LoginSession(r))
                => /\ last'.tokens = rq[r].tokens
                   /\ "create" \in rq[r].writes
        /\ (RefreshCreate(r) /\ last'.status = 200)
                => /\ last'.tokens = rq[r].tokens
                   /\ Recorded(ledger', rq[r].tokens.refreshToken)
        /\ ((RegisterCreate(r) \/ LoginCreate(r) \/ RefreshCreate(r))
                /\ ~Recorded(ledger', rq[r].minted))
                => /\ last'.status = 500 /\ last'.tokens = NoTokens
                   /\ delivered' = delivered
        /\ (RefreshIsValid(r) /\ ~Recorded(ledger, rq[r].token))
                => /\ last'.status \in {401, 500} /\ last'.tokens = NoTokens
                   /\ rq'[r] = IdleReq
                   /\ UNCHANGED <<ledger, delivered>>]_vars

\* a refresh with a well-signed credential that has no row was refused, and
\* a pair has been handed out
C37_Witness ==
    /\ last.kind = "refresh" /\ last.code = "TOKEN_REVOKED"
    /\ verifyRefreshToken(last.token, now)
    /\ ~Recorded(ledger, last.token)
    /\ last.token \notin {p.refreshToken : p \in delivered}
    /\ delivered # {}

\* the ledger rows of l that principal id does not own
RowsOfOthers(l, id) == {row \in l : row.user_id # id}

\* C38: the revocation step of a logout leaves every ledger row that the
\* authenticated principal does not own as it was.
C38_LogoutRevokesOwnEntry ==
    [][\A r \in Reqs :
        LogoutRevoke(r) =>
            RowsOfOthers(ledger', rq[r].user.id) = RowsOfOthers(ledger, rq[r].user.id)]_vars

\* C39: every ledger row is owned by the subject of the credential it
\* stores, and the row a rotation inserts is owned by the principal that
\* owns the row of the presented credential.
C39_OwnerIsSubject ==
    /\ \A row \in ledger : row.user_id = row.token.userId
    /\ \A r \in Reqs :
        (rq[r].kind = "refresh" /\ rq[r].pc \in {"revoke", "create"}) =>
            /\ rq[r].user.id = rq[r].minted.userId
            /\ \A row \in RowsOf(ledger, rq[r].token) : row.user_id = rq[r].user.id
    /\ (last.kind = "refresh" /\ last.status = 200) =>
            \A new \in RowsOf(ledger, last.minted), old \in RowsOf(ledger, last.token) :
                new.user_id = old.user_id

\* a rotation of the second principal's credential has recorded its new
\* entry next to the revoked one, both rows in the ledger
C39_Witness ==
    /\ last.kind = "refresh" /\ last.status = 200
    /\ \E new \in RowsOf(ledger, last.minted), old \in RowsOf(ledger, last.token) :
            new.user_id = Bob.id /\ old.revoked /\ ~new.revoked
    /\ \E row \in ledger : row.user_id = Alice.id

\* C40: a request the gateway forwards on a route that is not public reaches
\* the downstream service with X-User-Id, X-User-Email and X-User-Roles equal
\* to the claims of the credential in its Authorization header, which
\* verifies under JWT_SECRET, whatever identity headers its sender supplied;
\* on a public route the identity headers are those of the sender, the
\* gateway sets none.
C40_ForwardedIdentity ==
    (probe.pc = "proxy" /\ probe.out.outcome = "Forwarded") =>
        IF ~isPublicRoute(probe.path)
            THEN /\ probe.header.scheme = "Bearer"
                 /\ jwt_verify(probe.header.token, "JWT_SECRET", probe.at) = "ok"
                 /\ probe.out.headers =
                        [userId |-> probe.header.token.userId,
                         email |-> probe.header.token.email,
                         roles |-> probe.header.token.roles]
            ELSE /\ probe.out.user = Null
                 /\ probe.out.headers = probe.x

\* a request with identity headers of the sender's own was forwarded on a
\* protected route with other identity headers
C40_Witness ==
    /\ probe.pc = "proxy" /\ probe.out.outcome = "Forwarded"
    /\ ~isPublicRoute(probe.path)
    /\ probe.x # Null
    /\ probe.out.headers # probe.x

====
